---- MODULE Spec2Model ----
(***************************************************************************)
(* MediRAG: hybrid retrieval (dense FAISS + sparse BM25, weighted          *)
(* reciprocal-rank fusion) and its callers.                                *)
(*                                                                         *)
(* Modelled from src/retrieval/fusion.py (hybrid_search), src/generate.py  *)
(* (generate_answer) and src/evaluation/retrieval_metrics.py (the alpha    *)
(* sweep of the evaluation harness): specification Spec.  The stand-alone  *)
(* retrievers of src/retrieval/dense.py and sparse.py and the import of    *)
(* the three retrieval modules: RetrieverSpec.  The fusion loop on longer   *)
(* candidate lists: FusionSpec.  The two tokenize functions: TokenizeSpec. *)
(* Chapter parsing and chunking: IngestSpec.  The index build of           *)
(* src/indexing/dense_faiss.py: BuildSpec.  Two threads, each serving one  *)
(* query through the hybrid pipeline over the shared stores: ServeSpec.    *)
(* chunk_tokens on one chapter of any length: ChunkerSpec.  The metrics    *)
(* and the run of src/evaluation/retrieval_metrics.py: MetricsSpec.  The   *)
(* script runs of one browser session of src/app.py: AppSpec.  call_judge  *)
(* of src/evaluation/llm_judge.py: JudgeSpec.                              *)
(*                                                                         *)
(* Conventions.                                                            *)
(*  - A chunk id (the string "<chapter>_<idx>") is a positive integer; the  *)
(*    order on integers stands for the order on the id strings.            *)
(*  - FAISS slots and positions in the chunk list are 0-based as in the    *)
(*    code; -1 is the label FAISS returns for a missing neighbour.         *)
(*  - Weights are in tenths (WD = 6 is 0.6).  A fusion score is an integer *)
(*    in units of 1/(10 * ScoreScale), ScoreScale being a common multiple  *)
(*    of the denominators RRF_K + rank, so sums and comparisons are exact  *)
(*    (the code adds doubles; for the ranks of this model the order of the  *)
(*    doubles is the order of the exact values).                           *)
(***************************************************************************)
EXTENDS Integers, Sequences, FiniteSets, TLC

\* ------------------------------------------------------------------ bounds
\* Largest number of chunks in the chunk file / ids in the id universe.
MaxChunks == 3
\* Candidates taken from each retriever (20 in src/retrieval/fusion.py:18,
\* scaled down with the corpus so that both the padded and the unpadded
\* nearest-neighbour result occur).
RETRIEVAL_K == 2
\* Final results kept (5 in src/retrieval/fusion.py:17, scaled down likewise
\* so that truncation happens).
TOP_K == 2
\* FusionSpec: the longest candidate list fused and the size of its corpus
\* (the worked example of the fusion contract has lists of 3 over 4 passages).
FuseMaxK == 3
FuseChunks == 4
\* TokenizeSpec: the longest text tokenized, in characters.
MaxText == 3
\* RetrieverSpec: the largest top_k asked of dense_search and sparse_search,
\* and the largest score level (similarities and BM25 scores are 0..MaxScore).
MaxTopK == 2
MaxScore == 1
\* IngestSpec: the longest cleaned text, in lines, and the largest chapter
\* number a heading carries.
MaxLines == 4
MaxChapter == 2
\* Chunks embedded per batch (8 in src/indexing/dense_faiss.py:15, scaled down
\* with the corpus so that a build takes several batches, the last one short).
BATCH_SIZE == 2

\* --------------------------------------------------------------- constants
RRF_K == 60
WD == 6
WS == 4
\* chunking.py:15-16 and the shortest chunk kept (chunking.py:44).
CHUNK_SIZE == 800
OVERLAP == 150
MIN_CHUNK_TOKENS == 50

\* Weight settings (dense, sparse) in tenths.  fusion.py fixes WD and WS as
\* module constants; the fusion code is also run with the settings the spec's
\* contract and the harness name for it: alpha = 1.0, alpha = 0.0 and 0.5.
Weights == {<<WD, WS>>, <<10, 0>>, <<0, 10>>, <<5, 5>>}

\* Alphas the evaluation harness sweeps (retrieval_metrics.py:267), tenths.
SweepAlphas == {3, 5, 7}

Ids == 1..MaxChunks

\* generate.py:146
NoContextAnswer == "No relevant context retrieved."

\* ----------------------------------------------------------------- helpers
Min(a, b) == IF a < b THEN a ELSE b

Range(s) == {s[i] : i \in 1..Len(s)}

RECURSIVE SumSeq(_)
SumSeq(s) == IF s = <<>> THEN 0 ELSE Head(s) + SumSeq(Tail(s))

InjSeqs(S, k) == {f \in [1..k -> S] : \A i, j \in 1..k : i # j => f[i] # f[j]}

RECURSIVE SortedSeq(_)
\* The ascending sequence of a finite set of integers.
SortedSeq(S) ==
  IF S = {} THEN <<>>
  ELSE LET m == CHOOSE x \in S : \A y \in S : x <= y
       IN <<m>> \o SortedSeq(S \ {m})

RECURSIVE Gcd(_, _)
Gcd(a, b) == IF b = 0 THEN a ELSE Gcd(b, a % b)

RECURSIVE LcmUpTo(_)
\* lcm(RRF_K + 1, ..., RRF_K + n)
LcmUpTo(n) ==
  IF n = 0 THEN 1
  ELSE LET l == LcmUpTo(n - 1)
       IN (l \div Gcd(l, RRF_K + n)) * (RRF_K + n)

\* The largest rank a candidate can have in any specification.
MaxRank == IF RETRIEVAL_K > FuseMaxK THEN RETRIEVAL_K ELSE FuseMaxK

ScoreScale == LcmUpTo(MaxRank)

\* ------------------------------------------------------------------- state
VARIABLES
  chunks,          \* fusion.py:36   the chunk file, as the list of chunk ids
  id_map,          \* fusion.py:40   ids.json: FAISS slot -> chunk id
  ntotal,          \* fusion.py:58   number of vectors in the FAISS index
  wd, ws,          \* fusion.py:21-22 the configured weights, in tenths
  dense_indices,   \* fusion.py:118  dense_indices[0] of the last query
  sparse_indices,  \* fusion.py:123
  fusion_scores,   \* fusion.py:126  dict in insertion order: <<key, score>>
  top_results,     \* fusion.py:145
  printed,         \* fusion.py:151-160 chunk ids resolved and printed
  outcome,         \* how the last hybrid_search(query) ended
  last_call        \* the last call made by generate_answer or the harness

\* The retrieval process: src/retrieval/dense.py, sparse.py, fusion.py.
VARIABLES
  module,          \* the retrieval module the process imported, or the
                   \* exception its import raised
  index_d,         \* dense.py:47   index.d, the dimension of the stored vectors
  top_k,           \* dense.py:101, sparse.py:63  the top_k of the last search
  tokenized_query, \* sparse.py:65, fusion.py:121
  scores,          \* dense.py:104 scores[0]; sparse.py:66 scores
  results,         \* dense.py:106-122, sparse.py:70-84
  search           \* the search function that ran last and how it ended

\* The two tokenize functions applied to one text.
VARIABLES
  text,            \* the argument, a sequence of characters
  tokens           \* what sparse.tokenize and fusion.tokenize returned

\* Ingestion: section_parser.py and chunking.py.
VARIABLES
  lines,           \* section_parser.py:37 text.splitlines()
  records,         \* section_parser.py:31,90 / chunking.py:60 chapters
  all_chunks,      \* chunking.py:62
  ingest_pc        \* the stage of the ingestion pipeline

\* The index build: dense_faiss.py main().
VARIABLES
  build_pc,        \* the position of main()
  build_chunks,    \* dense_faiss.py:87-90
  next_batch,      \* dense_faiss.py:101  i
  all_embeddings,  \* dense_faiss.py:96   one entry per embedded chunk
  id_mapping,      \* dense_faiss.py:97
  embeddings_matrix, \* dense_faiss.py:112
  index_vectors,   \* dense_faiss.py:131-132 the vectors added to the index
  ids_file,        \* embeddings/ids.json on disk
  index_file       \* index/faiss.index on disk

\* Concurrent queries of one serving process (fusion.py hybrid_search run by
\* several workers over the same loaded module state).
VARIABLES
  threads          \* per worker: the position in hybrid_search and its locals

\* The retrieval evaluation harness: evaluation/retrieval_metrics.py.
VARIABLES
  harness,         \* the position of the __main__ block and of the
                   \* evaluate_system call it is in, with the lists
                   \* recalls_5, recalls_10, mrr_scores, ndcg_scores
                   \* (retrieval_metrics.py:156-159), all_results (:251), best (:280)
  measured         \* one application of the three metric functions

\* The web app, app.py, in one browser session.
VARIABLES
  app              \* st.session_state (generating, query_input), the position
                   \* of the script run, how the Generate button was last
                   \* rendered, what the page shows

\* The LLM judge: evaluation/llm_judge.py call_judge.
VARIABLES
  judge            \* the position of call_judge, its attempt counter, the
                   \* responses received so far, the value returned

hybrid_vars == <<chunks, id_map, ntotal, wd, ws, dense_indices, sparse_indices,
                 fusion_scores, top_results, printed, outcome, last_call>>

retriever_vars == <<module, index_d, top_k, tokenized_query, scores, results,
                    search>>

tokenizer_vars == <<text, tokens>>

ingest_vars == <<lines, records, all_chunks, ingest_pc>>

build_vars == <<build_pc, build_chunks, next_batch, all_embeddings, id_mapping,
                embeddings_matrix, index_vectors, ids_file, index_file>>

vars == <<hybrid_vars, retriever_vars, tokenizer_vars, ingest_vars, build_vars,
          threads, harness, measured, app, judge>>

\* What the variables of a part hold while another part is looked at.
RetrieverIdle ==
  /\ module = "fusion"
  /\ index_d = "encoder"
  /\ top_k = 0
  /\ tokenized_query = <<>>
  /\ scores = <<>>
  /\ results = <<>>
  /\ search = [fn |-> "none", outcome |-> "none"]

NoTokens == [done |-> FALSE, sparse |-> <<>>, fusion |-> <<>>]

TokenizerIdle == text = <<>> /\ tokens = NoTokens

IngestIdle ==
  /\ lines = <<>>
  /\ records = <<>>
  /\ all_chunks = <<>>
  /\ ingest_pc = "idle"

\* A file that has not been written.
Absent == [written |-> FALSE, content |-> <<>>]
Written(content) == [written |-> TRUE, content |-> content]

BuildIdle ==
  /\ build_pc = "idle"
  /\ build_chunks = <<>>
  /\ next_batch = 0
  /\ all_embeddings = <<>>
  /\ id_mapping = <<>>
  /\ embeddings_matrix = <<>>
  /\ index_vectors = <<>>
  /\ ids_file = Absent
  /\ index_file = Absent

\* The workers of the serving process.
Workers == {"w1", "w2"}

\* A worker that serves no query.
IdleThread ==
  [pc |-> "idle", query |-> 0, dense_indices |-> <<>>, sparse_indices |-> <<>>,
   fusion_scores |-> <<>>, top_results |-> <<>>, printed |-> <<>>,
   outcome |-> "none"]

ServeIdle == threads = [w \in Workers |-> IdleThread]

\* The harness before __main__ runs; no metric function applied.
MetricsIdle ==
  /\ harness = [pc |-> "idle", system |-> 0, query_no |-> 0,
                recalls_5 |-> <<>>, recalls_10 |-> <<>>, mrr_scores |-> <<>>,
                ndcg_scores |-> <<>>, debug |-> <<>>, all_results |-> <<>>,
                best |-> [name |-> 0, recall5 |-> 0, recall10 |-> 0,
                          mrr |-> 0, ndcg |-> 0]]
  /\ measured = [done |-> FALSE, results |-> <<>>, relevant_chapter |-> 0,
                 k |-> 0, recall |-> 0, mrr |-> 0, ndcg |-> 0]

\* No session is open.
AppIdle ==
  app = [pc |-> "closed", generating |-> "unset", query_input |-> "unset",
         button_disabled |-> FALSE, shown |-> "nothing", runs |-> 0]

\* call_judge has not been called.
JudgeIdle ==
  judge = [pc |-> "idle", attempt |-> 0, log |-> <<>>, returned |-> "nothing",
           scores |-> <<>>]

stores == <<chunks, id_map, ntotal, wd, ws>>
query_vars == <<dense_indices, sparse_indices, fusion_scores, top_results,
                printed, outcome>>

\* A Python value handed back by hybrid_search: None or a list of results.
PyNone == [kind |-> "None", items |-> <<>>]
PyList(items) == [kind |-> "list", items |-> items]

\* bool(value) as in "if not retrieved_chunks".
Truthy(v) == v.kind = "list" /\ v.items # <<>>

NoCall == [caller |-> "none", kwargs |-> {}, outcome |-> "none",
           retrieved |-> PyNone, answer |-> "none", sources |-> PyNone,
           llm_invoked |-> FALSE]

Reverse(s) == [i \in 1..Len(s) |-> s[Len(s) + 1 - i]]

HybridIdle ==
  /\ chunks = <<>>
  /\ id_map = <<>>
  /\ ntotal = 0
  /\ wd = WD
  /\ ws = WS
  /\ dense_indices = <<>>
  /\ sparse_indices = <<>>
  /\ fusion_scores = <<>>
  /\ top_results = <<>>
  /\ printed = <<>>
  /\ outcome = "none"
  /\ last_call = NoCall

\* The loaded state.  The chunk file is non-empty (BM25Okapi of an empty
\* corpus divides by zero at import, fusion.py:75) and so is the index
\* (np.vstack of no batches raises in dense_faiss.py:112).  ids.json is
\* written from the chunks sorted by chunk_id (dense_faiss.py:90), together
\* with the index, but possibly from another version of the chunk file.
\* The chunk file is in chapter order, which the order of the id strings may
\* follow or not ("10_0" sorts before "2_0"): both extremes are taken.
Init ==
  /\ \E n \in 1..MaxChunks : chunks \in {SortedSeq(1..n), Reverse(SortedSeq(1..n))}
  /\ \E S \in (SUBSET Ids) \ {{}} : id_map = SortedSeq(S)
  /\ ntotal = Len(id_map)
  /\ \E w \in Weights : wd = w[1] /\ ws = w[2]
  /\ dense_indices = <<>>
  /\ sparse_indices = <<>>
  /\ fusion_scores = <<>>
  /\ top_results = <<>>
  /\ printed = <<>>
  /\ outcome = "none"
  /\ last_call = NoCall
  /\ RetrieverIdle
  /\ TokenizerIdle
  /\ IngestIdle
  /\ BuildIdle
  /\ ServeIdle
  /\ MetricsIdle
  /\ AppIdle
  /\ JudgeIdle

\* ------------------------------------------------- external search results
\* index.search(vec, k): the min(ntotal, k) nearest slots, all distinct, in
\* descending similarity, padded with -1 up to k entries.  Which slots and in
\* which order depends on the query embedding: any order is possible.
RECURSIVE Pad(_, _)
Pad(s, k) == IF Len(s) >= k THEN s ELSE Pad(Append(s, -1), k)

IndexSearch(n, k) == {Pad(f, k) : f \in InjSeqs(0..(n - 1), Min(n, k))}

\* np.argsort(scores)[::-1][:k] over one score per chunk: min(len, k) distinct
\* positions of the chunk list; the order depends on the query's BM25 scores.
ArgsortTop(n, k) == InjSeqs(0..(n - 1), Min(n, k))

\* ------------------------------------------------------------ Python lists
\* seq[i] for a Python list: 0-based, negative i counts from the end.
PyInRange(seq, i) == (i >= 0 /\ i < Len(seq)) \/ (i < 0 /\ -i <= Len(seq))

PyIndex(seq, i) == IF i >= 0 THEN seq[i + 1] ELSE seq[Len(seq) + i + 1]

\* chunk_lookup = {chunk["chunk_id"]: chunk for chunk in chunks}: its keys.
chunk_lookup == Range(chunks)

\* chunkid_to_faiss = {chunk_id: idx for idx, chunk_id in enumerate(id_map)}
\* (a later duplicate overwrites an earlier one).
InChunkidToFaiss(cid) == cid \in Range(id_map)

\* The slot taken to be the chunk's position in the chunk file instead.
chunkid_to_faiss_by_position(cid) ==
  CHOOSE idx \in 0..(Len(chunks) - 1) : chunks[idx + 1] = cid

chunkid_to_faiss(cid) ==
  CHOOSE idx \in 0..(Len(id_map) - 1) :
    /\ id_map[idx + 1] = cid
    /\ \A j \in 0..(Len(id_map) - 1) : id_map[j + 1] = cid => j <= idx

\* ------------------------------------------------------------------ fusion
\* The rank counted from 0, as enumerate without start=1 would.
ContributionFromZero(w, rank) == w * (ScoreScale \div (RRF_K + rank - 1))

\* The reciprocal left out: the weight times the smoothed rank.
ContributionNoReciprocal(w, rank) == w * (RRF_K + rank)

\* w * (1 / (RRF_K + rank)), in units of 1/(10 * ScoreScale).
Contribution(w, rank) == w * (ScoreScale \div (RRF_K + rank))

HasKey(acc, key) == \E i \in 1..Len(acc) : acc[i][1] = key

\* acc[key] = acc.get(key, 0) + score, the dict keeping insertion order.
AddScore(acc, key, score) ==
  IF HasKey(acc, key)
  THEN [i \in 1..Len(acc) |->
          IF acc[i][1] = key THEN <<key, acc[i][2] + score>> ELSE acc[i]]
  ELSE Append(acc, <<key, score>>)

RECURSIVE DenseContribution(_, _, _, _)
\* fusion.py:129-131, from rank on.
DenseContribution(acc, dense, w, rank) ==
  IF rank > Len(dense) THEN acc
  ELSE DenseContribution(AddScore(acc, dense[rank], Contribution(w, rank)),
                         dense, w, rank + 1)

\* fusion.py:136-141, one sparse candidate.
SparseStep(acc, sparse_idx, w, rank) ==
  LET sparse_chunk_id == PyIndex(chunks, sparse_idx)
  IN IF InChunkidToFaiss(sparse_chunk_id)
     THEN AddScore(acc, chunkid_to_faiss(sparse_chunk_id), Contribution(w, rank))
     ELSE acc

RECURSIVE SparseContribution(_, _, _, _)
\* fusion.py:134-141, from rank on.
SparseContribution(acc, sparse, w, rank) ==
  IF rank > Len(sparse) THEN acc
  ELSE SparseContribution(SparseStep(acc, sparse[rank], w, rank),
                          sparse, w, rank + 1)

\* fusion.py:126-141.
FusionScores(dense, sparse, w_d, w_s) ==
  SparseContribution(DenseContribution(<<>>, dense, w_d, 1), sparse, w_s, 1)

\* Where sorted(..., reverse=True) puts x in an already sorted list: after
\* every item whose score is not smaller (the sort is stable).
ComesBefore(a, x) == a[2] >= x[2]

RECURSIVE InsertSorted(_, _)
InsertSorted(sorted, x) ==
  IF sorted = <<>> THEN <<x>>
  ELSE IF ComesBefore(Head(sorted), x)
       THEN <<Head(sorted)>> \o InsertSorted(Tail(sorted), x)
       ELSE <<x>> \o sorted

RECURSIVE SortByScore(_)
\* sorted(fusion_scores.items(), key=lambda x: x[1], reverse=True)
SortByScore(items) ==
  IF items = <<>> THEN <<>>
  ELSE InsertSorted(SortByScore(SubSeq(items, 1, Len(items) - 1)),
                    items[Len(items)])

\* ranked[:TOP_K]
Truncate(ranked) == SubSeq(ranked, 1, Min(TOP_K, Len(ranked)))

\* fusion.py:153-154 for one result: the exception raised, if any.
ResolveError(faiss_idx) ==
  IF ~PyInRange(id_map, faiss_idx) THEN "IndexError"
  ELSE IF PyIndex(id_map, faiss_idx) \notin chunk_lookup THEN "KeyError"
  ELSE "none"

\* fusion.py:153: chunk_id = id_map[faiss_idx]
ResolveId(faiss_idx) == PyIndex(id_map, faiss_idx)

Raised(top, i) == ResolveError(top[i][1]) # "none"

RECURSIVE PrintResults(_, _)
\* fusion.py:151-160: the results printed, in order, up to the first one that
\* does not resolve.
PrintResults(top, rank) ==
  IF rank > Len(top) THEN <<>>
  ELSE IF Raised(top, rank) THEN <<>>
  ELSE <<[rank |-> rank, chunk_id |-> ResolveId(top[rank][1]),
          score |-> top[rank][2]]>> \o PrintResults(top, rank + 1)

\* How the loop of fusion.py:151-160 ends.
PrintOutcome(top) ==
  IF \E i \in 1..Len(top) : Raised(top, i)
  THEN LET i == CHOOSE i \in 1..Len(top) :
                  /\ Raised(top, i)
                  /\ \A j \in 1..(i - 1) : ~Raised(top, j)
       IN ResolveError(top[i][1])
  ELSE "printed"

\* ------------------------------------------------------------- operations
\* hybrid_search(query), fusion.py:114-160.  The function prints the results
\* and has no return statement.
HybridSearch ==
  /\ outcome = "none"
  /\ last_call = NoCall
  /\ \E d \in IndexSearch(ntotal, RETRIEVAL_K),
        s \in ArgsortTop(Len(chunks), RETRIEVAL_K) :
       LET acc == FusionScores(d, s, wd, ws)
           top == Truncate(SortByScore(acc))
       IN /\ dense_indices' = d
          /\ sparse_indices' = s
          /\ fusion_scores' = acc
          /\ top_results' = top
          /\ printed' = PrintResults(top, 1)
          /\ outcome' = PrintOutcome(top)
  /\ UNCHANGED <<stores, last_call>>
  /\ UNCHANGED <<retriever_vars, tokenizer_vars, ingest_vars, build_vars>>
  /\ UNCHANGED <<threads, harness, measured, app, judge>>

\* def hybrid_search(query: str), fusion.py:114: the keyword arguments the
\* function accepts besides its positional query.
HybridSearchKeywords == {}

\* Python binds a call's keyword arguments before the body runs; a keyword the
\* signature does not name raises TypeError.
Binds(kwargs) == kwargs \subseteq HybridSearchKeywords

\* The value hybrid_search hands back when its body runs to the end: the
\* function has no return statement (fusion.py:114-160).
HybridSearchReturn(top) == PyNone

\* generate.py:145-180, given what hybrid_search returned.  "generated"
\* stands for whatever the language model call yields: the cleaned answer or
\* the empty-response warning (generate.py:173-180).
AnswerFrom(retrieved, kwargs) ==
  IF ~Truthy(retrieved)
  THEN [caller |-> "generate_answer", kwargs |-> kwargs, outcome |-> "returned",
        retrieved |-> retrieved, answer |-> NoContextAnswer,
        sources |-> PyList(<<>>), llm_invoked |-> FALSE]
  ELSE [caller |-> "generate_answer", kwargs |-> kwargs, outcome |-> "returned",
        retrieved |-> retrieved, answer |-> "generated",
        sources |-> retrieved, llm_invoked |-> TRUE]

\* A call that ended by an exception raised in hybrid_search or at its call.
RaisedCall(caller, kwargs, exc) ==
  [caller |-> caller, kwargs |-> kwargs, outcome |-> exc,
   retrieved |-> PyNone, answer |-> "none", sources |-> PyNone,
   llm_invoked |-> FALSE]

\* evaluate_system's results = search_fn(query, return_results=True),
\* retrieval_metrics.py:173.
HarnessGot(retrieved, kwargs) ==
  [caller |-> "evaluate_system", kwargs |-> kwargs, outcome |-> "returned",
   retrieved |-> retrieved, answer |-> "none", sources |-> PyNone,
   llm_invoked |-> FALSE]

\* What the caller makes of the value hybrid_search returned.
Got(caller, value, kwargs) ==
  IF caller = "generate_answer" THEN AnswerFrom(value, kwargs)
  ELSE HarnessGot(value, kwargs)

\* hybrid_search called with keyword arguments by `caller`.
CallHybridSearch(caller, kwargs) ==
  IF ~Binds(kwargs)
  THEN /\ last_call' = RaisedCall(caller, kwargs, "TypeError")
       /\ UNCHANGED query_vars
  ELSE \E d \in IndexSearch(ntotal, RETRIEVAL_K),
          s \in ArgsortTop(Len(chunks), RETRIEVAL_K) :
         LET acc == FusionScores(d, s, wd, ws)
             top == Truncate(SortByScore(acc))
         IN /\ dense_indices' = d
            /\ sparse_indices' = s
            /\ fusion_scores' = acc
            /\ top_results' = top
            /\ printed' = PrintResults(top, 1)
            /\ outcome' = PrintOutcome(top)
            /\ last_call' =
                 IF PrintOutcome(top) # "printed"
                 THEN RaisedCall(caller, kwargs, PrintOutcome(top))
                 ELSE Got(caller, HybridSearchReturn(top), kwargs)

\* generate_answer(query, verbose), generate.py:136-180.
GenerateAnswer ==
  /\ outcome = "none"
  /\ last_call = NoCall
  /\ \E verbose \in BOOLEAN :
       CallHybridSearch("generate_answer", {"return_results", "verbose"})
  /\ UNCHANGED stores
  /\ UNCHANGED <<retriever_vars, tokenizer_vars, ingest_vars, build_vars>>
  /\ UNCHANGED <<threads, harness, measured, app, judge>>

\* One query of the alpha sweep: retrieval_metrics.py:173 and 267-275.
EvaluateHybrid ==
  /\ outcome = "none"
  /\ last_call = NoCall
  /\ \E a \in SweepAlphas :
       CallHybridSearch("evaluate_system", {"alpha", "return_results"})
  /\ UNCHANGED stores
  /\ UNCHANGED <<retriever_vars, tokenizer_vars, ingest_vars, build_vars>>
  /\ UNCHANGED <<threads, harness, measured, app, judge>>

\* The call is over: its locals are gone and the process serves the next one.
Finish ==
  /\ outcome # "none" \/ last_call # NoCall
  /\ dense_indices' = <<>>
  /\ sparse_indices' = <<>>
  /\ fusion_scores' = <<>>
  /\ top_results' = <<>>
  /\ printed' = <<>>
  /\ outcome' = "none"
  /\ last_call' = NoCall
  /\ UNCHANGED stores
  /\ UNCHANGED <<retriever_vars, tokenizer_vars, ingest_vars, build_vars>>
  /\ UNCHANGED <<threads, harness, measured, app, judge>>

Next == HybridSearch \/ GenerateAnswer \/ EvaluateHybrid \/ Finish

Spec == Init /\ [][Next]_vars

\* --------------------------------------------------------------- ServeSpec
\* Several workers of one process run hybrid_search (fusion.py:114-160) over
\* the module state loaded at import.  Every name the function assigns is a
\* local of the call; chunks, id_map, index, bm25 and chunkid_to_faiss are
\* only read.  A step is one stage of the function; the interpreter may
\* switch workers between any two.

\* The queries asked, by number.
MaxQuery == 2

\* index.search(encode_query(query), RETRIEVAL_K), fusion.py:117-118: a
\* function of the query and the index.  Query q's nearest slots are q - 1,
\* q, ... (mod ntotal), padded with -1.
QueryDense(query) ==
  Pad([i \in 1..Min(ntotal, RETRIEVAL_K) |-> (query + i - 2) % ntotal],
      RETRIEVAL_K)

\* fusion.py:121-123: a function of the query and the chunk list.  Query q's
\* best positions are 2q + 1, 2q + 2, ... (mod the number of chunks).
QuerySparse(query) ==
  [i \in 1..Min(Len(chunks), RETRIEVAL_K) |-> (2 * query + i) % Len(chunks)]

ServeInit ==
  /\ \E n \in 1..MaxChunks : chunks = SortedSeq(1..n)
  /\ \E S \in (SUBSET Ids) \ {{}} : id_map = SortedSeq(S)
  /\ ntotal = Len(id_map)
  /\ wd = WD
  /\ ws = WS
  /\ dense_indices = <<>>
  /\ sparse_indices = <<>>
  /\ fusion_scores = <<>>
  /\ top_results = <<>>
  /\ printed = <<>>
  /\ outcome = "none"
  /\ last_call = NoCall
  /\ ServeIdle
  /\ RetrieverIdle
  /\ TokenizerIdle
  /\ IngestIdle
  /\ BuildIdle
  /\ MetricsIdle
  /\ AppIdle
  /\ JudgeIdle

\* hybrid_search(query) is called, fusion.py:114; encode_query starts.
StartQuery(w) ==
  /\ threads[w].pc = "idle"
  /\ \E q \in 1..MaxQuery :
       threads' = [threads EXCEPT ![w] = [IdleThread EXCEPT !.pc = "encode",
                                                             !.query = q]]
  /\ UNCHANGED <<hybrid_vars, retriever_vars, tokenizer_vars, ingest_vars, build_vars>>
  /\ UNCHANGED <<harness, measured, app, judge>>

\* encode_query returns the query vector, fusion.py:88-108 and 117.  The
\* call is synchronous and has no deadline: the worker waits for it however
\* long the encoder takes.
EncodeReturns(w) ==
  /\ threads[w].pc = "encode"
  /\ threads' = [threads EXCEPT ![w].pc = "search"]
  /\ UNCHANGED <<hybrid_vars, retriever_vars, tokenizer_vars, ingest_vars, build_vars>>
  /\ UNCHANGED <<harness, measured, app, judge>>

\* fusion.py:118-123
Retrieve(w) ==
  /\ threads[w].pc = "search"
  /\ threads' = [threads EXCEPT ![w].dense_indices = QueryDense(threads[w].query),
                                ![w].sparse_indices = QuerySparse(threads[w].query),
                                ![w].pc = "fuse"]
  /\ UNCHANGED <<hybrid_vars, retriever_vars, tokenizer_vars, ingest_vars, build_vars>>
  /\ UNCHANGED <<harness, measured, app, judge>>

\* A fusion_scores kept in one dict of the module, written by every worker.
FuseShared(w) ==
  /\ threads[w].pc = "fuse"
  /\ threads' =
       [v \in Workers |->
          [threads[v] EXCEPT !.fusion_scores =
             FusionScores(threads[w].dense_indices, threads[w].sparse_indices,
                          wd, ws),
                             !.pc = IF v = w THEN "sort" ELSE threads[v].pc]]
  /\ UNCHANGED <<hybrid_vars, retriever_vars, tokenizer_vars, ingest_vars, build_vars>>
  /\ UNCHANGED <<harness, measured, app, judge>>

\* fusion.py:126-141: fusion_scores is a new dict of the call.
Fuse(w) ==
  /\ threads[w].pc = "fuse"
  /\ threads' =
       [threads EXCEPT ![w].fusion_scores =
          FusionScores(threads[w].dense_indices, threads[w].sparse_indices,
                       wd, ws),
                       ![w].pc = "sort"]
  /\ UNCHANGED <<hybrid_vars, retriever_vars, tokenizer_vars, ingest_vars, build_vars>>
  /\ UNCHANGED <<harness, measured, app, judge>>

\* fusion.py:144-160: the ranking is cut and printed.
RankAndPrint(w) ==
  /\ threads[w].pc = "sort"
  /\ LET top == Truncate(SortByScore(threads[w].fusion_scores))
     IN threads' = [threads EXCEPT ![w].top_results = top,
                                   ![w].printed = PrintResults(top, 1),
                                   ![w].outcome = PrintOutcome(top),
                                   ![w].pc = "done"]
  /\ UNCHANGED <<hybrid_vars, retriever_vars, tokenizer_vars, ingest_vars, build_vars>>
  /\ UNCHANGED <<harness, measured, app, judge>>

\* The query is given up between two statements (its caller is interrupted):
\* the locals of the call are dropped.
Abandon(w) ==
  /\ threads[w].pc \in {"encode", "search", "fuse", "sort"}
  /\ threads' = [threads EXCEPT ![w] = IdleThread]
  /\ UNCHANGED <<hybrid_vars, retriever_vars, tokenizer_vars, ingest_vars, build_vars>>
  /\ UNCHANGED <<harness, measured, app, judge>>

\* The call is over; the worker takes the next query.
EndQuery(w) ==
  /\ threads[w].pc = "done"
  /\ threads' = [threads EXCEPT ![w] = IdleThread]
  /\ UNCHANGED <<hybrid_vars, retriever_vars, tokenizer_vars, ingest_vars, build_vars>>
  /\ UNCHANGED <<harness, measured, app, judge>>

ServeNext ==
  \E w \in Workers :
    \/ StartQuery(w)
    \/ EncodeReturns(w)
    \/ Retrieve(w)
    \/ Fuse(w)
    \/ RankAndPrint(w)
    \/ Abandon(w)
    \/ EndQuery(w)

\* The interpreter keeps running every worker that has a statement of its
\* own to run.  Nothing bounds the time the encoder takes, and nothing makes
\* a caller give a query up: EncodeReturns and Abandon are not fair.
ServeSpec ==
  /\ ServeInit
  /\ [][ServeNext]_vars
  /\ \A w \in Workers :
       WF_vars(Retrieve(w) \/ Fuse(w) \/ RankAndPrint(w) \/ EndQuery(w))

\* ------------------------------------------------------------- MetricsSpec
\* evaluation/retrieval_metrics.py.  A ranked list is the list of the
\* chapter_number of its results (the parameter `results` of the source is
\* `ranked` here).  A float is kept in millionths (1/3 is
\* 333333); a mean rounded to three decimals is kept in thousandths.

\* The longest ranked list a metric function is applied to.
MaxRanked == 3

\* The two cut-offs of evaluate_system, 5 and 10 in
\* retrieval_metrics.py:175-178, scaled to the lists of the model.
SmallK == 1
LargeK == 2

RankedLists == UNION {[1..n -> 1..MaxChapter] : n \in 0..MaxRanked}

\* A recall that looks at the whole list.
recall_anywhere(ranked, relevant_chapter, k) ==
  IF \E i \in 1..Len(ranked) : ranked[i] = relevant_chapter THEN 1 ELSE 0

\* retrieval_metrics.py:119-121
recall_at_k(ranked, relevant_chapter, k) ==
  LET top_k_chapters == {ranked[i] : i \in 1..Min(k, Len(ranked))}
  IN IF relevant_chapter \in top_k_chapters THEN 1 ELSE 0

\* retrieval_metrics.py:124-133.  seen[i] is the set after i results; rank
\* is the position enumerate gives, repeated chapters included.
mrr_score(ranked, relevant_chapter) ==
  LET seen[i \in 0..Len(ranked)] ==
        IF i = 0 THEN {} ELSE seen[i - 1] \cup {ranked[i]}
      returns == {rank \in 1..Len(ranked) :
                    /\ ranked[rank] \notin seen[rank - 1]
                    /\ ranked[rank] = relevant_chapter}
  IN IF returns = {} THEN 0
     ELSE 1000000 \div (CHOOSE rank \in returns : TRUE)

\* 1.0 / np.log2(x), in millionths.
InvLog2(x) ==
  CASE x = 2 -> 1000000
    [] x = 3 -> 630930
    [] x = 4 -> 500000
    [] x = 5 -> 430677
    [] x = 6 -> 386853
    [] OTHER -> 1000000 \div x

\* retrieval_metrics.py:136-148.  pos counts the distinct chapters of
\* results[:k] met so far.
ndcg_at_k(ranked, relevant_chapter, k) ==
  LET top == SubSeq(ranked, 1, Min(k, Len(ranked)))
      seen[i \in 0..Len(top)] ==
        IF i = 0 THEN {} ELSE seen[i - 1] \cup {top[i]}
      returns == {i \in 1..Len(top) :
                    top[i] \notin seen[i - 1] /\ top[i] = relevant_chapter}
  IN IF returns = {} THEN 0
     ELSE InvLog2(Cardinality(seen[CHOOSE i \in returns : TRUE]) + 1)

\* round(float(np.mean(values)), 3), retrieval_metrics.py:215-218, of values
\* in millionths.  No mean of the model lies halfway between two thousandths.
Mean3(values) ==
  (SumSeq(values) + Len(values) * 500) \div (Len(values) * 1000)

\* EVAL_QUERIES, retrieval_metrics.py:24-113: the relevant_chapter of each
\* labelled query (50 in the source).
EVAL_QUERIES == <<1, 2>>

\* What dense_search and sparse_search return for a labelled query: nothing,
\* one result, results of two chapters, a chapter repeated ahead of another.
SearchOutputs == {<<>>, <<1>>, <<2, 1>>, <<1, 1, 2>>}

MetricsInit ==
  /\ harness = [pc |-> "evaluate", system |-> 1, query_no |-> 0,
                recalls_5 |-> <<>>, recalls_10 |-> <<>>, mrr_scores |-> <<>>,
                ndcg_scores |-> <<>>, debug |-> <<>>, all_results |-> <<>>,
                best |-> [name |-> 0, recall5 |-> 0, recall10 |-> 0,
                          mrr |-> 0, ndcg |-> 0]]
  /\ measured = [done |-> FALSE, results |-> <<>>, relevant_chapter |-> 0,
                 k |-> 0, recall |-> 0, mrr |-> 0, ndcg |-> 0]
  /\ HybridIdle
  /\ RetrieverIdle
  /\ TokenizerIdle
  /\ IngestIdle
  /\ BuildIdle
  /\ ServeIdle
  /\ AppIdle
  /\ JudgeIdle

\* The three metric functions applied to one ranked list, outside a run of
\* the harness.
Measure ==
  /\ ~measured.done
  /\ harness.system = 1 /\ harness.query_no = 0
  /\ \E ranked \in RankedLists, relevant_chapter \in 1..MaxChapter,
        k \in 1..(MaxRanked + 1) :
       measured' = [done |-> TRUE, results |-> ranked,
                    relevant_chapter |-> relevant_chapter, k |-> k,
                    recall |-> recall_at_k(ranked, relevant_chapter, k),
                    mrr |-> mrr_score(ranked, relevant_chapter),
                    ndcg |-> ndcg_at_k(ranked, relevant_chapter, k)]
  /\ UNCHANGED harness
  /\ UNCHANGED <<hybrid_vars, retriever_vars, tokenizer_vars, ingest_vars, build_vars>>
  /\ UNCHANGED <<threads, app, judge>>

\* One labelled query of evaluate_system, retrieval_metrics.py:168-192.
\* Systems 1 and 2 are dense_search and sparse_search (:253-265); systems 3
\* to 5 are hybrid_search(q, alpha=a, return_results=True) (:267-275), whose
\* keywords the function does not accept.  The lists are new at the first
\* query (:156-159).
EvaluateQuery ==
  /\ ~measured.done
  /\ harness.pc = "evaluate"
  /\ harness.query_no < Len(EVAL_QUERIES)
  /\ IF harness.system >= 3 /\ ~Binds({"alpha", "return_results"})
     THEN harness' = [harness EXCEPT !.pc = "TypeError"]
     ELSE \E ranked \in SearchOutputs :
            LET h == IF harness.query_no = 0
                     THEN [harness EXCEPT !.recalls_5 = <<>>, !.recalls_10 = <<>>,
                                          !.mrr_scores = <<>>, !.ndcg_scores = <<>>,
                                          !.debug = <<>>]
                     ELSE harness
                expected == EVAL_QUERIES[harness.query_no + 1]
            IN harness' =
                 [h EXCEPT
                    !.recalls_5 = Append(@, recall_at_k(ranked, expected, SmallK)),
                    !.recalls_10 = Append(@, recall_at_k(ranked, expected, LargeK)),
                    !.mrr_scores = Append(@, mrr_score(ranked, expected)),
                    !.ndcg_scores = Append(@, ndcg_at_k(ranked, expected, LargeK)),
                    !.debug = Append(@, [expected |-> expected,
                                         returned_chapters |->
                                           SubSeq(ranked, 1, Min(LargeK, Len(ranked)))]),
                    !.query_no = @ + 1]
  /\ UNCHANGED measured
  /\ UNCHANGED <<hybrid_vars, retriever_vars, tokenizer_vars, ingest_vars, build_vars>>
  /\ UNCHANGED <<threads, app, judge>>

\* evaluate_system returns its summary, retrieval_metrics.py:194-220 (the
\* breakdown by tier is left out), and __main__ goes on: the next system, or
\* after the fifth the recommendation of :277-283.  max returns the first of
\* the greatest (mrr, ndcg@10) pairs.
EndSystem ==
  /\ ~measured.done
  /\ harness.pc = "evaluate"
  /\ harness.query_no = Len(EVAL_QUERIES)
  /\ LET millionths(rs) == [i \in 1..Len(rs) |-> 1000000 * rs[i]]
         report == [name |-> harness.system,
                    recall5 |-> Mean3(millionths(harness.recalls_5)),
                    recall10 |-> Mean3(millionths(harness.recalls_10)),
                    mrr |-> Mean3(harness.mrr_scores),
                    ndcg |-> Mean3(harness.ndcg_scores)]
         all == Append(harness.all_results, report)
         key(r) == r.mrr * 1001 + r.ndcg
     IN IF harness.system < 5
        THEN harness' = [harness EXCEPT !.all_results = all, !.system = @ + 1,
                                        !.query_no = 0]
        ELSE harness' =
               [harness EXCEPT
                  !.all_results = all,
                  !.pc = "done",
                  !.best = all[CHOOSE i \in 1..Len(all) :
                                 /\ \A j \in 1..Len(all) : key(all[j]) <= key(all[i])
                                 /\ \A j \in 1..(i - 1) : key(all[j]) < key(all[i])]]
  /\ UNCHANGED measured
  /\ UNCHANGED <<hybrid_vars, retriever_vars, tokenizer_vars, ingest_vars, build_vars>>
  /\ UNCHANGED <<threads, app, judge>>

MetricsNext == Measure \/ EvaluateQuery \/ EndSystem

MetricsSpec == MetricsInit /\ [][MetricsNext]_vars

\* ----------------------------------------------------------------- AppSpec
\* app.py in one browser session.  Streamlit runs the script from top to
\* bottom on every interaction; st.session_state outlives the run; an
\* exception the script does not catch ends the run.

\* The script runs of a session.
MaxRuns == 10

AppInit ==
  /\ AppIdle
  /\ HybridIdle
  /\ RetrieverIdle
  /\ TokenizerIdle
  /\ IngestIdle
  /\ BuildIdle
  /\ ServeIdle
  /\ MetricsIdle
  /\ JudgeIdle

\* One run of the script up to the call of generate_answer (app.py:231-356)
\* or, without one, to its end.  The run is caused by opening or reloading
\* the page, which starts with an empty st.session_state, by editing the
\* question (:313-318), by an example button (:309-310, 338-342) or by the
\* Generate button, which can be clicked only if it was rendered enabled
\* (:330-335).
ScriptRun ==
  /\ app.pc \in {"closed", "waiting"}
  /\ app.runs < MaxRuns
  /\ \E event \in {"open", "edit", "example", "generate"},
        typed \in {"", " ", "question", "other question"} :
       /\ app.pc = "closed" => event = "open"
       /\ event = "generate" => ~app.button_disabled
       /\ LET query == CASE event = "open" -> ""
                         [] event = "edit" -> typed
                         [] event = "example" -> "question"
                         [] OTHER -> app.query_input
              flag == IF event = "open" \/ app.generating = "unset"
                      THEN "False" ELSE app.generating
          IN app' =
               IF event = "generate" /\ query \notin {"", " "}
               THEN [pc |-> "generating", generating |-> "True",
                     query_input |-> query, button_disabled |-> (flag = "True"),
                     shown |-> "spinner", runs |-> app.runs + 1]
               ELSE [pc |-> "waiting", generating |-> flag,
                     query_input |-> query, button_disabled |-> (flag = "True"),
                     shown |-> "page", runs |-> app.runs + 1]
  /\ UNCHANGED <<hybrid_vars, retriever_vars, tokenizer_vars, ingest_vars, build_vars>>
  /\ UNCHANGED <<threads, harness, measured, judge>>

\* generate_answer(query, verbose=False) ends, app.py:356-359 and the
\* display after it.  generate_answer passes return_results and verbose to
\* hybrid_search (generate.py:139-143); nothing in app.py catches.
GenerateEnds ==
  /\ app.pc = "generating"
  /\ app' = IF ~Binds({"return_results", "verbose"})
            THEN [app EXCEPT !.pc = "waiting", !.shown = "TypeError"]
            ELSE [app EXCEPT !.pc = "waiting", !.generating = "False",
                             !.shown = "answer"]
  /\ UNCHANGED <<hybrid_vars, retriever_vars, tokenizer_vars, ingest_vars, build_vars>>
  /\ UNCHANGED <<threads, harness, measured, judge>>

AppNext == ScriptRun \/ GenerateEnds

AppSpec == AppInit /\ [][AppNext]_vars

\* --------------------------------------------------------------- JudgeSpec
\* evaluation/llm_judge.py call_judge for one answer.
MAX_RETRIES == 3

\* A value of a score key in the judge's JSON: one that int() converts, with
\* the integer it converts to, or one that it does not ("high", null).
JudgeResponses ==
  LET values == {[converts |-> TRUE, int |-> v] : v \in {0, 3, 6}}
                  \cup {[converts |-> FALSE, int |-> 0]}
  IN {[kind |-> k, scores |-> <<>>] :
        k \in {"api error", "not json", "not an object", "missing keys"}}
       \cup {[kind |-> "complete", scores |-> s] : s \in [1..3 -> values]}

\* No statement of llm_judge.py:97-126 raises on the response.
Usable(response) ==
  /\ response.kind = "complete"
  /\ \A i \in 1..3 : response.scores[i].converts

\* A clamp that only bounds from above.
ClampUpperOnly(x) == IF x > 5 THEN 5 ELSE x

\* max(1, min(5, x)), llm_judge.py:126
Clamp(x) == IF x < 1 THEN 1 ELSE IF x > 5 THEN 5 ELSE x

\* call_judge is called, llm_judge.py:90-95.
JudgeInit ==
  /\ judge = [pc |-> "loop", attempt |-> 1, log |-> <<>>,
              returned |-> "nothing", scores |-> <<>>]
  /\ HybridIdle
  /\ RetrieverIdle
  /\ TokenizerIdle
  /\ IngestIdle
  /\ BuildIdle
  /\ ServeIdle
  /\ MetricsIdle
  /\ AppIdle

\* One iteration of the loop, llm_judge.py:95-136, and after the last one
\* the return of None (:138-139).  Both except branches sleep and go on.
Attempt ==
  /\ judge.pc = "loop"
  /\ \E response \in JudgeResponses :
       judge' =
         IF Usable(response)
         THEN [judge EXCEPT !.log = Append(@, response),
                            !.returned = "parsed",
                            !.scores = [i \in 1..3 |-> Clamp(response.scores[i].int)],
                            !.pc = "returned"]
         ELSE IF judge.attempt < MAX_RETRIES
              THEN [judge EXCEPT !.log = Append(@, response), !.attempt = @ + 1]
              ELSE [judge EXCEPT !.log = Append(@, response),
                                 !.returned = "None", !.pc = "returned"]
  /\ UNCHANGED <<hybrid_vars, retriever_vars, tokenizer_vars, ingest_vars, build_vars>>
  /\ UNCHANGED <<threads, harness, measured, app>>

JudgeSpec == JudgeInit /\ [][Attempt]_vars

\* -------------------------------------------------------------- FusionSpec
\* The fusion loop of hybrid_search (fusion.py:125-160) on candidate lists of
\* every length up to FuseMaxK over a corpus of FuseChunks passages whose
\* three stores agree: the index is never short of neighbours.  The chunk
\* file is in an order other than that of the id strings (as "2_0" before
\* "10_0"), so a chunk's position is not its slot.
FusionInit ==
  /\ chunks = Reverse(SortedSeq(1..FuseChunks))
  /\ id_map = SortedSeq(1..FuseChunks)
  /\ ntotal = FuseChunks
  /\ \E w \in Weights : wd = w[1] /\ ws = w[2]
  /\ dense_indices = <<>>
  /\ sparse_indices = <<>>
  /\ fusion_scores = <<>>
  /\ top_results = <<>>
  /\ printed = <<>>
  /\ outcome = "none"
  /\ last_call = NoCall
  /\ RetrieverIdle
  /\ TokenizerIdle
  /\ IngestIdle
  /\ BuildIdle
  /\ ServeIdle
  /\ MetricsIdle
  /\ AppIdle
  /\ JudgeIdle

\* fusion.py:118-160 with the two retrievers asked for k candidates each.
FuseLists ==
  /\ outcome = "none"
  /\ \E k \in 1..FuseMaxK :
       \E d \in IndexSearch(ntotal, k), s \in ArgsortTop(Len(chunks), k) :
         LET acc == FusionScores(d, s, wd, ws)
             top == Truncate(SortByScore(acc))
         IN /\ dense_indices' = d
            /\ sparse_indices' = s
            /\ fusion_scores' = acc
            /\ top_results' = top
            /\ printed' = PrintResults(top, 1)
            /\ outcome' = PrintOutcome(top)
  /\ UNCHANGED <<stores, last_call>>
  /\ UNCHANGED <<retriever_vars, tokenizer_vars, ingest_vars, build_vars>>
  /\ UNCHANGED <<threads, harness, measured, app, judge>>

FusionNext == FuseLists \/ Finish

FusionSpec == FusionInit /\ [][FusionNext]_vars

\* ------------------------------------------------------------ TokenizeSpec
\* Texts are sequences of characters, one for each class the two functions
\* tell apart: a lower-case letter that is a stopword on its own ("a"),
\* another letter in both cases, a digit, white space and punctuation.
Chars == {"a", "b", "B", "1", " ", "-"}

LowerLetters == {"a", "b"}
Digits == {"1"}
Whitespace == {" "}

\* stopwords.words("english") (sparse.py:32, fusion.py:64), as far as the
\* tokens of this alphabet go: "a" is in the list, "b" is not.
STOPWORDS == {<<"a">>}

Texts == UNION {[1..n -> Chars] : n \in 0..MaxText}

\* text.lower()
Lower(s) == [i \in 1..Len(s) |-> IF s[i] = "B" THEN "b" ELSE s[i]]

\* re.sub(r"[^...]", " ", text): every character outside `kept` becomes " ".
Sub(s, kept) == [i \in 1..Len(s) |-> IF s[i] \in kept THEN s[i] ELSE " "]

RECURSIVE SplitFrom(_, _, _)
\* text.split(): the maximal runs of characters that are not white space.
SplitFrom(s, word, out) ==
  IF s = <<>> THEN (IF word = <<>> THEN out ELSE Append(out, word))
  ELSE IF Head(s) \in Whitespace
       THEN SplitFrom(Tail(s), <<>>, IF word = <<>> THEN out ELSE Append(out, word))
       ELSE SplitFrom(Tail(s), Append(word, Head(s)), out)

Split(s) == SplitFrom(s, <<>>, <<>>)

RECURSIVE DropStopwords(_)
\* [t for t in tokens if t not in STOPWORDS]
DropStopwords(toks) ==
  IF toks = <<>> THEN <<>>
  ELSE IF Head(toks) \in STOPWORDS THEN DropStopwords(Tail(toks))
       ELSE <<Head(toks)>> \o DropStopwords(Tail(toks))

\* sparse.py:38-43: the pattern is [^a-z0-9\s].
sparse_tokenize(s) ==
  DropStopwords(Split(Sub(Lower(s), LowerLetters \cup Digits \cup Whitespace)))

\* fusion.py:66-71: the pattern is [^a-z\s].
fusion_tokenize(s) ==
  DropStopwords(Split(Sub(Lower(s), LowerLetters \cup Whitespace)))

TokenizeInit ==
  /\ text \in Texts
  /\ tokens = NoTokens
  /\ HybridIdle
  /\ RetrieverIdle
  /\ IngestIdle
  /\ BuildIdle
  /\ ServeIdle
  /\ MetricsIdle
  /\ AppIdle
  /\ JudgeIdle

\* The same text given to both functions.
Tokenize ==
  /\ ~tokens.done
  /\ tokens' = [done |-> TRUE, sparse |-> sparse_tokenize(text),
                 fusion |-> fusion_tokenize(text)]
  /\ UNCHANGED text
  /\ UNCHANGED <<hybrid_vars, retriever_vars, ingest_vars, build_vars>>
  /\ UNCHANGED <<threads, harness, measured, app, judge>>

TokenizeNext == Tokenize

TokenizeSpec == TokenizeInit /\ [][TokenizeNext]_vars

\* ----------------------------------------------------------- RetrieverSpec
\* A process imports one of the retrieval modules, which reads the persisted
\* files at import, and then serves searches.

\* The chunk file: possibly empty, in the order of the id strings or not.
PersistedChunks ==
  UNION {{SortedSeq(1..n), Reverse(SortedSeq(1..n))} : n \in 0..MaxChunks}

\* ids.json: written from the chunks sorted by chunk_id (dense_faiss.py:90).
PersistedIds == {SortedSeq(S) : S \in SUBSET Ids}

\* index.d of the index file: the dimension of the query encoder or another.
Dimensions == {"encoder", "other"}

NoSearch == [fn |-> "none", outcome |-> "none"]

RetrieverInit ==
  /\ HybridIdle
  /\ module = "none"
  /\ index_d = "encoder"
  /\ top_k = 0
  /\ tokenized_query = <<>>
  /\ scores = <<>>
  /\ results = <<>>
  /\ search = NoSearch
  /\ TokenizerIdle
  /\ IngestIdle
  /\ BuildIdle
  /\ ServeIdle
  /\ MetricsIdle
  /\ AppIdle
  /\ JudgeIdle

\* import of dense.py (dense.py:31-58): the index, the chunk file and ids.json
\* are read as they are; nothing is compared.
ImportDense ==
  /\ module = "none"
  /\ chunks' \in PersistedChunks
  /\ id_map' \in PersistedIds
  /\ ntotal' \in 0..MaxChunks
  /\ index_d' \in Dimensions
  /\ module' = "dense"
  /\ UNCHANGED <<wd, ws, query_vars, last_call>>
  /\ UNCHANGED <<top_k, tokenized_query, scores, results, search>>
  /\ UNCHANGED <<tokenizer_vars, ingest_vars, build_vars>>
  /\ UNCHANGED <<threads, harness, measured, app, judge>>

\* BM25Okapi(tokenized_corpus) (sparse.py:55, fusion.py:75): the average
\* document length is a division by the number of documents.
Bm25Build(docs) == IF docs = <<>> THEN "ZeroDivisionError" ELSE "built"

\* import of sparse.py (sparse.py:21-56): reads the chunk file only.
ImportSparse ==
  /\ module = "none"
  /\ \E c \in PersistedChunks :
       /\ chunks' = c
       /\ module' = IF Bm25Build(c) = "built" THEN "sparse" ELSE Bm25Build(c)
  /\ UNCHANGED <<id_map, ntotal, wd, ws, query_vars, last_call>>
  /\ UNCHANGED <<index_d, top_k, tokenized_query, scores, results, search>>
  /\ UNCHANGED <<tokenizer_vars, ingest_vars, build_vars>>
  /\ UNCHANGED <<threads, harness, measured, app, judge>>

\* import of fusion.py (fusion.py:34-75): reads all three files and builds
\* BM25; nothing is compared.
ImportFusion ==
  /\ module = "none"
  /\ \E c \in PersistedChunks :
       /\ chunks' = c
       /\ module' = IF Bm25Build(c) = "built" THEN "fusion" ELSE Bm25Build(c)
  /\ id_map' \in PersistedIds
  /\ ntotal' \in 0..MaxChunks
  /\ index_d' \in Dimensions
  /\ UNCHANGED <<wd, ws, query_vars, last_call>>
  /\ UNCHANGED <<top_k, tokenized_query, scores, results, search>>
  /\ UNCHANGED <<tokenizer_vars, ingest_vars, build_vars>>
  /\ UNCHANGED <<threads, harness, measured, app, judge>>

\* The score FAISS reports for a missing neighbour: below every similarity.
PadScore == 0 - 1

\* index.search(query_vec, k) on an inner-product index whose vectors have
\* the similarities sim to the query: the min(ntotal, k) most similar slots
\* in descending similarity, padded with -1.  FAISS fixes no order among
\* equal similarities and dense_search imposes none: any order can come.
KnnSearch(sim, k) ==
  LET n == Cardinality(DOMAIN sim)
      m == Min(n, k)
  IN {Pad(f, k) : f \in
        {g \in InjSeqs(DOMAIN sim, m) :
           /\ \A i, j \in 1..m : i < j => sim[g[i]] >= sim[g[j]]
           /\ \A x \in DOMAIN sim :
                (\A i \in 1..m : g[i] # x) => \A i \in 1..m : sim[x] <= sim[g[i]]}}

\* scores[0] of index.search: the similarity of each neighbour returned.
KnnScores(sim, d) ==
  [r \in 1..Len(d) |-> IF d[r] = -1 THEN PadScore ELSE sim[d[r]]]

\* dense.py:108-122, run to the end.
DenseResults(d, sc) ==
  [r \in 1..Len(d) |->
     [rank |-> r, chunk_id |-> ResolveId(d[r]), score |-> sc[r]]]

\* dense.py:110-111: the first lookup of the loop that raises, if any.
DenseOutcome(d) ==
  IF \E r \in 1..Len(d) : ResolveError(d[r]) # "none"
  THEN LET r == CHOOSE r \in 1..Len(d) :
                  /\ ResolveError(d[r]) # "none"
                  /\ \A q \in 1..(r - 1) : ResolveError(d[q]) = "none"
       IN ResolveError(d[r])
  ELSE "returned"

\* dense_search(query, top_k, return_results=True), dense.py:101-125.  The
\* FAISS wrapper asserts that the query vector has the index's dimension.
DenseSearch ==
  /\ module = "dense"
  /\ search = NoSearch
  /\ \E k \in 1..MaxTopK :
       /\ top_k' = k
       /\ IF index_d # "encoder"
          THEN /\ search' = [fn |-> "dense_search", outcome |-> "AssertionError"]
               /\ UNCHANGED <<dense_indices, scores, results>>
          ELSE \E sim \in [0..(ntotal - 1) -> 0..MaxScore] :
                 \E d \in KnnSearch(sim, k) :
                   /\ dense_indices' = d
                   /\ scores' = KnnScores(sim, d)
                   /\ search' = [fn |-> "dense_search", outcome |-> DenseOutcome(d)]
                   /\ results' = IF DenseOutcome(d) = "returned"
                                  THEN DenseResults(d, KnnScores(sim, d))
                                  ELSE <<>>
  /\ UNCHANGED <<stores, sparse_indices, fusion_scores, top_results, printed,
                 outcome, last_call>>
  /\ UNCHANGED <<module, index_d, tokenized_query>>
  /\ UNCHANGED <<tokenizer_vars, ingest_vars, build_vars>>
  /\ UNCHANGED <<threads, harness, measured, app, judge>>

\* The queries asked: the empty one, a stopword, a word, a number.
QueryTexts == {<<>>, <<"a">>, <<"b">>, <<"1">>}

\* bm25.get_scores(tokenized_query): one score per chunk, by position.  Every
\* score is a sum over the query's tokens: no token, all scores 0.
Bm25Scores(tq, n) ==
  IF tq = <<>> THEN {[i \in 0..(n - 1) |-> 0]}
  ELSE [0..(n - 1) -> 0..MaxScore]

\* np.argsort(scores)[::-1][:k]: the min(n, k) positions of highest score in
\* descending score.  The default sort is not stable: numpy fixes no order
\* among equal scores (for short arrays it is the descending position).
ArgsortDesc(sc, k) ==
  LET m == Min(Cardinality(DOMAIN sc), k)
  IN {g \in InjSeqs(DOMAIN sc, m) :
        /\ \A i, j \in 1..m : i < j => sc[g[i]] >= sc[g[j]]
        /\ \A x \in DOMAIN sc :
             (\A i \in 1..m : g[i] # x) => \A i \in 1..m : sc[x] <= sc[g[i]]}

\* sparse.py:72-84
SparseResults(s, sc) ==
  [r \in 1..Len(s) |->
     [rank |-> r, chunk_id |-> PyIndex(chunks, s[r]), score |-> sc[s[r]]]]

\* sparse_search(query, top_k, return_results=True), sparse.py:63-87.
SparseSearch ==
  /\ module = "sparse"
  /\ search = NoSearch
  /\ \E k \in 1..MaxTopK, q \in QueryTexts :
       \E sc \in Bm25Scores(sparse_tokenize(q), Len(chunks)) :
         \E s \in ArgsortDesc(sc, k) :
           /\ top_k' = k
           /\ tokenized_query' = sparse_tokenize(q)
           /\ scores' = [i \in 1..Len(chunks) |-> sc[i - 1]]
           /\ sparse_indices' = s
           /\ results' = SparseResults(s, sc)
           /\ search' = [fn |-> "sparse_search", outcome |-> "returned"]
  /\ UNCHANGED <<stores, dense_indices, fusion_scores, top_results, printed,
                 outcome, last_call>>
  /\ UNCHANGED <<module, index_d>>
  /\ UNCHANGED <<tokenizer_vars, ingest_vars, build_vars>>
  /\ UNCHANGED <<threads, harness, measured, app, judge>>

\* The sparse leg of hybrid_search, fusion.py:120-123.
SparseLeg ==
  /\ module = "fusion"
  /\ search = NoSearch
  /\ \E q \in QueryTexts :
       \E sc \in Bm25Scores(fusion_tokenize(q), Len(chunks)) :
         \E s \in ArgsortDesc(sc, RETRIEVAL_K) :
           /\ top_k' = RETRIEVAL_K
           /\ tokenized_query' = fusion_tokenize(q)
           /\ scores' = [i \in 1..Len(chunks) |-> sc[i - 1]]
           /\ sparse_indices' = s
           /\ search' = [fn |-> "hybrid_search", outcome |-> "sparse leg done"]
  /\ UNCHANGED <<stores, dense_indices, fusion_scores, top_results, printed,
                 outcome, last_call>>
  /\ UNCHANGED <<module, index_d, results>>
  /\ UNCHANGED <<tokenizer_vars, ingest_vars, build_vars>>
  /\ UNCHANGED <<threads, harness, measured, app, judge>>

\* The search is over; the process serves the next one.
EndSearch ==
  /\ search # NoSearch
  /\ top_k' = 0
  /\ tokenized_query' = <<>>
  /\ scores' = <<>>
  /\ results' = <<>>
  /\ search' = NoSearch
  /\ dense_indices' = <<>>
  /\ sparse_indices' = <<>>
  /\ UNCHANGED <<stores, fusion_scores, top_results, printed, outcome, last_call>>
  /\ UNCHANGED <<module, index_d>>
  /\ UNCHANGED <<tokenizer_vars, ingest_vars, build_vars>>
  /\ UNCHANGED <<threads, harness, measured, app, judge>>

RetrieverNext ==
  \/ ImportDense
  \/ ImportSparse
  \/ ImportFusion
  \/ DenseSearch
  \/ SparseSearch
  \/ SparseLeg
  \/ EndSearch

RetrieverSpec == RetrieverInit /\ [][RetrieverNext]_vars

\* -------------------------------------------------------------- IngestSpec
\* The cleaned text as its lines, stripped.  A line is a chapter heading
\* (it matches CHAPTER_REGEX, section_parser.py:17) with its number, a line
\* of text with the number of tokens the BGE tokenizer makes of it, or blank.
Heading(n) == [kind |-> "chapter", num |-> n, tokens |-> 0]
TextLine(k) == [kind |-> "text", num |-> 0, tokens |-> k]
BlankLine == [kind |-> "blank", num |-> 0, tokens |-> 0]

\* Token counts of a line of text: a short line and a long one.
LineTokens == {40, 700}

LineKinds ==
  {Heading(n) : n \in 1..MaxChapter} \cup {TextLine(k) : k \in LineTokens}
    \cup {BlankLine}

CleanedTexts == UNION {[1..n -> LineKinds] : n \in 0..MaxLines}

\* section_parser.py:50-59 and 79-88: the record of the chapter collected so
\* far, appended if there is a chapter and its text is not empty.  The
\* content is kept as its number of tokens.
SaveChapter(recs, number, content) ==
  IF number # 0 /\ content # <<>>
  THEN Append(recs, [chapter_number |-> number, tokens |-> SumSeq(content)])
  ELSE recs

RECURSIVE ParseFrom(_, _, _, _)
\* section_parser.py:39-90.  number = 0 stands for current_chapter_number
\* being None.
ParseFrom(rest, recs, number, content) ==
  IF rest = <<>> THEN SaveChapter(recs, number, content)
  ELSE LET line == Head(rest)
       IN IF line.kind = "chapter"
          THEN ParseFrom(Tail(rest), SaveChapter(recs, number, content),
                         line.num, <<>>)
          ELSE IF number = 0 THEN ParseFrom(Tail(rest), recs, number, content)
          ELSE IF line.kind = "text"
               THEN ParseFrom(Tail(rest), recs, number,
                              Append(content, line.tokens))
               ELSE ParseFrom(Tail(rest), recs, number, content)

\* section_parser.py:24-90
parse_chapters(ls) == ParseFrom(ls, <<>>, 0, <<>>)

RECURSIVE ChunkFromPastOverlap(_, _, _, _, _)
\* A chunker that steps by chunk_size + overlap.
ChunkFromPastOverlap(start, total_tokens, chunk_size, overlap, out) ==
  IF start < total_tokens
  THEN LET end == Min(start + chunk_size, total_tokens)
       IN IF end - start < MIN_CHUNK_TOKENS THEN out
          ELSE ChunkFromPastOverlap(start + chunk_size + overlap, total_tokens,
                                    chunk_size, overlap, Append(out, <<start, end>>))
  ELSE out

RECURSIVE ChunkFrom(_, _, _, _, _)
\* chunking.py:40-48: the chunks as <<start, end>> of tokens[start:end].
ChunkFrom(start, total_tokens, chunk_size, overlap, out) ==
  IF start < total_tokens
  THEN LET end == Min(start + chunk_size, total_tokens)
       IN IF end - start < MIN_CHUNK_TOKENS THEN out
          ELSE ChunkFrom(start + chunk_size - overlap, total_tokens,
                         chunk_size, overlap, Append(out, <<start, end>>))
  ELSE out

\* chunking.py:35-50, on a token list of the given length.
chunk_tokens(total_tokens, chunk_size, overlap) ==
  ChunkFrom(0, total_tokens, chunk_size, overlap, <<>>)

\* chunking.py:69-90 for one chapter.  The chunk id "<chapter_num>_<idx>" is
\* the pair of the two numbers.
ChapterChunks(chapter) ==
  LET token_chunks == chunk_tokens(chapter.tokens, CHUNK_SIZE, OVERLAP)
  IN [i \in 1..Len(token_chunks) |->
        [chunk_id |-> <<chapter.chapter_number, i - 1>>,
         chapter_number |-> chapter.chapter_number,
         token_length |-> token_chunks[i][2] - token_chunks[i][1]]]

RECURSIVE AllChunks(_)
\* chunking.py:67-90
AllChunks(chapters) ==
  IF chapters = <<>> THEN <<>>
  ELSE ChapterChunks(Head(chapters)) \o AllChunks(Tail(chapters))

IngestInit ==
  /\ lines \in CleanedTexts
  /\ records = <<>>
  /\ all_chunks = <<>>
  /\ ingest_pc = "parse"
  /\ HybridIdle
  /\ RetrieverIdle
  /\ TokenizerIdle
  /\ BuildIdle
  /\ ServeIdle
  /\ MetricsIdle
  /\ AppIdle
  /\ JudgeIdle

\* section_parser.py:97-112: the records are written to merck_structured.json.
ParseChapters ==
  /\ ingest_pc = "parse"
  /\ records' = parse_chapters(lines)
  /\ ingest_pc' = "chunk"
  /\ UNCHANGED <<lines, all_chunks>>
  /\ UNCHANGED <<hybrid_vars, retriever_vars, tokenizer_vars, build_vars>>
  /\ UNCHANGED <<threads, harness, measured, app, judge>>

\* chunking.py:57-99.  The average token length (chunking.py:92) divides by
\* the number of chunks, before the chunk file is written.
Chunking ==
  /\ ingest_pc = "chunk"
  /\ all_chunks' = AllChunks(records)
  /\ ingest_pc' = IF AllChunks(records) = <<>> THEN "ZeroDivisionError"
                  ELSE "written"
  /\ UNCHANGED <<lines, records>>
  /\ UNCHANGED <<hybrid_vars, retriever_vars, tokenizer_vars, build_vars>>
  /\ UNCHANGED <<threads, harness, measured, app, judge>>

IngestNext == ParseChapters \/ Chunking

IngestSpec == IngestInit /\ [][IngestNext]_vars

\* ------------------------------------------------------------- ChunkerSpec
\* chunking.py main() on a chapter file of one chapter whose content has any
\* number of tokens up to MaxTokens.
MaxTokens == 1500

ChunkerInit ==
  /\ lines = <<>>
  /\ \E n \in 0..MaxTokens : records = <<[chapter_number |-> 1, tokens |-> n]>>
  /\ all_chunks = <<>>
  /\ ingest_pc = "chunk"
  /\ HybridIdle
  /\ RetrieverIdle
  /\ TokenizerIdle
  /\ BuildIdle
  /\ ServeIdle
  /\ MetricsIdle
  /\ AppIdle
  /\ JudgeIdle

ChunkerSpec == ChunkerInit /\ [][Chunking]_vars

\* --------------------------------------------------------------- BuildSpec
\* main() of dense_faiss.py.  A chunk of the chunk file is its chunk_id and
\* its content; the content is told apart by the chunk's place in the file,
\* so that two chunks with one id are still two passages.
ChunkFiles ==
  UNION {{[i \in 1..n |-> [chunk_id |-> f[i], content |-> i]] : f \in [1..n -> Ids]}
           : n \in 0..MaxChunks}

\* Where sorted() puts x in an already sorted list: after every chunk whose
\* id is not greater (the sort is stable).
RECURSIVE InsertById(_, _)
InsertById(sorted, x) ==
  IF sorted = <<>> THEN <<x>>
  ELSE IF Head(sorted).chunk_id <= x.chunk_id
       THEN <<Head(sorted)>> \o InsertById(Tail(sorted), x)
       ELSE <<x>> \o sorted

RECURSIVE SortByChunkId(_)
\* sorted(chunks, key=lambda x: x["chunk_id"]), dense_faiss.py:90
SortByChunkId(chs) ==
  IF chs = <<>> THEN <<>>
  ELSE InsertById(SortByChunkId(SubSeq(chs, 1, Len(chs) - 1)), chs[Len(chs)])

\* The embedding of a passage text (embed_batch, dense_faiss.py:60-75), known
\* by the text it embeds.
Embed(content) == [of |-> content]

\* chunks[i:i + BATCH_SIZE]
Batch(chs, i) == SubSeq(chs, i + 1, Min(i + BATCH_SIZE, Len(chs)))

\* dense_faiss.py:105-109: one embedding per chunk of the batch, in order.
BatchEmbeddings(batch) == [j \in 1..Len(batch) |-> Embed(batch[j].content)]

\* One id for the whole batch: append where the code extends.
BatchIdsFirstOnly(batch) == <<batch[1].chunk_id>>

\* dense_faiss.py:110: [chunk["chunk_id"] for chunk in batch]
BatchIds(batch) == [j \in 1..Len(batch) |-> batch[j].chunk_id]

BuildInit ==
  /\ build_pc = "sort"
  /\ build_chunks \in ChunkFiles
  /\ next_batch = 0
  /\ all_embeddings = <<>>
  /\ id_mapping = <<>>
  /\ embeddings_matrix = <<>>
  /\ index_vectors = <<>>
  /\ ids_file = Absent
  /\ index_file = Absent
  /\ HybridIdle
  /\ RetrieverIdle
  /\ TokenizerIdle
  /\ IngestIdle
  /\ ServeIdle
  /\ MetricsIdle
  /\ AppIdle
  /\ JudgeIdle

\* dense_faiss.py:90-97
SortChunks ==
  /\ build_pc = "sort"
  /\ build_chunks' = SortByChunkId(build_chunks)
  /\ build_pc' = "embed"
  /\ UNCHANGED <<next_batch, all_embeddings, id_mapping, embeddings_matrix,
                 index_vectors, ids_file, index_file>>
  /\ UNCHANGED <<hybrid_vars, retriever_vars, tokenizer_vars, ingest_vars>>
  /\ UNCHANGED <<threads, harness, measured, app, judge>>

\* One turn of the loop, dense_faiss.py:101-110.  Nothing can fail or be
\* seen between the append of the embeddings and the extend of the ids, so
\* the turn is one step.  all_embeddings is kept flat, one entry per chunk.
EmbedBatch ==
  /\ build_pc = "embed"
  /\ next_batch < Len(build_chunks)
  /\ LET batch == Batch(build_chunks, next_batch)
     IN /\ all_embeddings' = all_embeddings \o BatchEmbeddings(batch)
        /\ id_mapping' = id_mapping \o BatchIds(batch)
  /\ next_batch' = next_batch + BATCH_SIZE
  /\ UNCHANGED <<build_pc, build_chunks, embeddings_matrix, index_vectors,
                 ids_file, index_file>>
  /\ UNCHANGED <<hybrid_vars, retriever_vars, tokenizer_vars, ingest_vars>>
  /\ UNCHANGED <<threads, harness, measured, app, judge>>

\* embed_batch raises (the model call, dense_faiss.py:107): main() ends.
EmbedFails ==
  /\ build_pc = "embed"
  /\ next_batch < Len(build_chunks)
  /\ build_pc' = "RuntimeError"
  /\ UNCHANGED <<build_chunks, next_batch, all_embeddings, id_mapping,
                 embeddings_matrix, index_vectors, ids_file, index_file>>
  /\ UNCHANGED <<hybrid_vars, retriever_vars, tokenizer_vars, ingest_vars>>
  /\ UNCHANGED <<threads, harness, measured, app, judge>>

\* dense_faiss.py:112-122.  np.vstack of an empty list raises ValueError.
StackEmbeddings ==
  /\ build_pc = "embed"
  /\ next_batch >= Len(build_chunks)
  /\ IF all_embeddings = <<>>
     THEN build_pc' = "ValueError" /\ UNCHANGED embeddings_matrix
     ELSE build_pc' = "save ids" /\ embeddings_matrix' = all_embeddings
  /\ UNCHANGED <<build_chunks, next_batch, all_embeddings, id_mapping,
                 index_vectors, ids_file, index_file>>
  /\ UNCHANGED <<hybrid_vars, retriever_vars, tokenizer_vars, ingest_vars>>
  /\ UNCHANGED <<threads, harness, measured, app, judge>>

\* dense_faiss.py:124-126
SaveIds ==
  /\ build_pc = "save ids"
  /\ ids_file' = Written(id_mapping)
  /\ build_pc' = "build index"
  /\ UNCHANGED <<build_chunks, next_batch, all_embeddings, id_mapping,
                 embeddings_matrix, index_vectors, index_file>>
  /\ UNCHANGED <<hybrid_vars, retriever_vars, tokenizer_vars, ingest_vars>>
  /\ UNCHANGED <<threads, harness, measured, app, judge>>

\* dense_faiss.py:129-132: index.add stores the rows in order.
BuildIndex ==
  /\ build_pc = "build index"
  /\ index_vectors' = embeddings_matrix
  /\ build_pc' = "save index"
  /\ UNCHANGED <<build_chunks, next_batch, all_embeddings, id_mapping,
                 embeddings_matrix, ids_file, index_file>>
  /\ UNCHANGED <<hybrid_vars, retriever_vars, tokenizer_vars, ingest_vars>>
  /\ UNCHANGED <<threads, harness, measured, app, judge>>

\* dense_faiss.py:134-138
SaveIndex ==
  /\ build_pc = "save index"
  /\ index_file' = Written(index_vectors)
  /\ build_pc' = "done"
  /\ UNCHANGED <<build_chunks, next_batch, all_embeddings, id_mapping,
                 embeddings_matrix, index_vectors, ids_file>>
  /\ UNCHANGED <<hybrid_vars, retriever_vars, tokenizer_vars, ingest_vars>>
  /\ UNCHANGED <<threads, harness, measured, app, judge>>

BuildNext ==
  \/ SortChunks
  \/ EmbedBatch
  \/ EmbedFails
  \/ StackEmbeddings
  \/ SaveIds
  \/ BuildIndex
  \/ SaveIndex

BuildSpec == BuildInit /\ [][BuildNext]_vars

\* =================================================================== claims
\* Views of the state left by a run of hybrid_search.

\* A run of the body of hybrid_search is recorded in the state.
Ran == outcome # "none"

\* The nearest-neighbour result of the run holds padding.
Padded == \E r \in 1..Len(dense_indices) : dense_indices[r] = -1

\* The three persisted artefacts describe the same passages.
StoresConsistent ==
  /\ ntotal = Len(id_map)
  /\ Range(id_map) = Range(chunks)

\* Ranks of the dense list that hold a candidate (not padding) with an id.
DenseRanks ==
  {r \in 1..Len(dense_indices) :
     dense_indices[r] >= 0 /\ dense_indices[r] < Len(id_map)}

DenseIdAt(r) == id_map[dense_indices[r] + 1]
SparseIdAt(r) == chunks[sparse_indices[r] + 1]

DenseIdSet == {DenseIdAt(r) : r \in DenseRanks}
SparseIdSet == {SparseIdAt(r) : r \in 1..Len(sparse_indices)}
CandidateIds == DenseIdSet \cup SparseIdSet

DenseRankOf(p) == CHOOSE r \in DenseRanks : DenseIdAt(r) = p
SparseRankOf(p) == CHOOSE r \in 1..Len(sparse_indices) : SparseIdAt(r) = p

\* weight / (RRF_K + rank) in the units of the scores.
RrfTerm(weight, rank) == (weight * ScoreScale) \div (RRF_K + rank)

ExpectedScore(p) ==
  (IF p \in DenseIdSet THEN RrfTerm(wd, DenseRankOf(p)) ELSE 0)
  + (IF p \in SparseIdSet THEN RrfTerm(ws, SparseRankOf(p)) ELSE 0)

\* The entries of the accumulator that stand for passage p.
EntriesFor(p) ==
  {i \in 1..Len(fusion_scores) :
     /\ PyInRange(id_map, fusion_scores[i][1])
     /\ PyIndex(id_map, fusion_scores[i][1]) = p}

\* The chunk ids of the printed result, in order.
ResultIds == [i \in 1..Len(printed) |-> printed[i].chunk_id]

RECURSIVE Restrict(_, _)
\* The subsequence of s of the elements in S.
Restrict(s, S) ==
  IF s = <<>> THEN <<>>
  ELSE IF Head(s) \in S THEN <<Head(s)>> \o Restrict(Tail(s), S)
       ELSE Restrict(Tail(s), S)

DenseIdSeq ==
  [i \in 1..Cardinality(DenseRanks) |->
     DenseIdAt(CHOOSE r \in DenseRanks :
                 Cardinality({q \in DenseRanks : q < r}) = i - 1)]

SparseIdSeq == [r \in 1..Len(sparse_indices) |-> SparseIdAt(r)]

\* C1: on consistent stores every passage of either list has exactly one
\* accumulator entry, and its score is the sum of wd/(RRF_K + r_d) for its dense rank, if it has one, and
\* ws/(RRF_K + r_s) for its sparse rank, if it has one.
C1_ScoreIsWeightedRrfSum ==
  (Ran /\ StoresConsistent) => \A p \in CandidateIds :
           /\ Cardinality(EntriesFor(p)) = 1
           /\ \A i \in EntriesFor(p) : fusion_scores[i][2] = ExpectedScore(p)

\* C2: on consistent stores and an unpadded dense list, the results are in
\* descending score order, and of two results with equal score the one with
\* the smaller passage id comes first.
C2_SortedByScoreThenId ==
  (Ran /\ StoresConsistent /\ ~Padded) =>
    \A i, j \in 1..Len(printed) :
      i < j => \/ printed[i].score > printed[j].score
               \/ /\ printed[i].score = printed[j].score
                  /\ printed[i].chunk_id < printed[j].chunk_id

\* C3: on consistent stores a completed query prints exactly min(TOP_K, number of distinct passage
\* ids in the two lists) results, no passage id twice.
C3_LengthAndDistinct ==
  (Ran /\ StoresConsistent /\ outcome = "printed") =>
    /\ Len(printed) = Min(TOP_K, Cardinality(CandidateIds))
    /\ \A i, j \in 1..Len(printed) :
         i # j => printed[i].chunk_id # printed[j].chunk_id

\* C4: on consistent stores and with weights (1, 0) the printed order, restricted to the passages of
\* the dense list, is the dense ranking of those passages.
C4_AlphaOneIsDenseOrder ==
  (Ran /\ StoresConsistent /\ outcome = "printed" /\ wd = 10 /\ ws = 0) =>
    Restrict(ResultIds, DenseIdSet) = Restrict(DenseIdSeq, Range(ResultIds))

\* C5: on consistent stores and with weights (0, 1) the printed order, restricted to the passages of
\* the sparse list, is the sparse ranking of those passages.
C5_AlphaZeroIsSparseOrder ==
  (Ran /\ StoresConsistent /\ outcome = "printed" /\ wd = 0 /\ ws = 10) =>
    Restrict(ResultIds, SparseIdSet) = Restrict(SparseIdSeq, Range(ResultIds))

\* C6: on consistent stores every passage id printed by a query is an id of
\* that query's dense list or sparse list.
C6_ResultIdsFromLists ==
  (Ran /\ StoresConsistent) =>
    \A i \in 1..Len(printed) : printed[i].chunk_id \in CandidateIds

\* C6 witness: consistent stores, a padded dense list whose padding label is
\* among the results printed, next to a passage found by both retrievers.
C6_Witness ==
  /\ Ran /\ StoresConsistent /\ outcome = "printed"
  /\ Len(printed) = TOP_K
  /\ \E i \in 1..Len(top_results) : top_results[i][1] = -1
  /\ DenseIdSet \cap SparseIdSet # {}

\* A dense candidate of the run that does not resolve: its slot has no id, or
\* its id is not in the chunk file.
UnresolvableDense ==
  \E r \in 1..Len(dense_indices) :
    /\ dense_indices[r] >= 0
    /\ ResolveError(dense_indices[r]) # "none"

\* A sparse candidate of the run whose chunk id has no slot in ids.json.
UnresolvableSparse ==
  \E r \in 1..Len(sparse_indices) : SparseIdAt(r) \notin Range(id_map)

\* C7: a query whose sparse list holds a candidate missing from the slot-to-id
\* mapping (the dense list being unpadded and resolvable) ends with an error.
C7_UnresolvableAborts ==
  (Ran /\ ~Padded /\ ~UnresolvableDense /\ UnresolvableSparse) =>
    outcome \in {"IndexError", "KeyError"}

\* C8: a call by generate_answer or by the evaluation harness is accepted and
\* returns the ordered fused results.
C8_CallersReceiveResults ==
  last_call.caller # "none" =>
    /\ last_call.outcome = "returned"
    /\ last_call.retrieved = PyList(printed)

\* C9: a generate_answer call that retrieved no passages returns the fixed
\* answer with no sources and without invoking the language model, and the
\* language model is invoked only with passages retrieved.
C9_EmptyRetrievalDeclines ==
  /\ (last_call.caller = "generate_answer" /\ ~Truthy(last_call.retrieved)) =>
       /\ last_call.outcome = "returned"
       /\ last_call.answer = NoContextAnswer
       /\ last_call.sources = PyList(<<>>)
       /\ ~last_call.llm_invoked
  /\ last_call.llm_invoked => Truthy(last_call.retrieved)

\* The accumulator filled from the sparse list first, then the dense list.
SparseFirstScores(dense, sparse, w_d, w_s) ==
  DenseContribution(SparseContribution(<<>>, sparse, w_s, 1), dense, w_d, 1)

Keys(items) == [i \in 1..Len(items) |-> items[i][1]]

ScoreIn(acc, key) == acc[CHOOSE i \in 1..Len(acc) : acc[i][1] = key][2]

\* The accumulated score of passage p in the run of the state.
ScoreOfId(p) == ScoreIn(fusion_scores, chunkid_to_faiss(p))

\* The passage ids of the whole ranking of fusion.py:144, before truncation.
RankedIds ==
  LET ranked == SortByScore(fusion_scores)
  IN [i \in 1..Len(ranked) |-> ResolveId(ranked[i][1])]

\* The worked example: passages A, B, C, D are the ids 1, 2, 3, 4.
WorkedExample ==
  /\ Ran
  /\ wd = WD /\ ws = WS
  /\ DenseIdSeq = <<1, 2, 3>>
  /\ SparseIdSeq = <<2, 1, 4>>

\* C11: for dense ranks [A, B, C] and sparse ranks [B, A, D] with weights
\* 0.6 / 0.4 and RRF_K = 60 the scores are 0.6/61 + 0.4/62 for A,
\* 0.6/62 + 0.4/61 for B, 0.6/63 for C and 0.4/63 for D, strictly descending
\* in this order, and the ranking is [A, B, C, D], of which the first TOP_K
\* are printed.
C11_WorkedExampleOrder ==
  WorkedExample =>
    /\ \A rank \in 1..3 : ScoreScale % (RRF_K + rank) = 0
    /\ ScoreOfId(1) = RrfTerm(WD, 1) + RrfTerm(WS, 2)
    /\ ScoreOfId(2) = RrfTerm(WD, 2) + RrfTerm(WS, 1)
    /\ ScoreOfId(3) = RrfTerm(WD, 3)
    /\ ScoreOfId(4) = RrfTerm(WS, 3)
    /\ ScoreOfId(1) > ScoreOfId(2)
    /\ ScoreOfId(2) > ScoreOfId(3)
    /\ ScoreOfId(3) > ScoreOfId(4)
    /\ RankedIds = <<1, 2, 3, 4>>
    /\ ResultIds = SubSeq(<<1, 2, 3, 4>>, 1, Min(TOP_K, 4))

\* C11 witness: the worked example has been fused and printed.
C11_Witness == WorkedExample /\ outcome = "printed" /\ Len(fusion_scores) = 4

\* The list with the candidates of ranks r and r + 1 exchanged.
SwapAt(s, r) ==
  [i \in 1..Len(s) |-> IF i = r THEN s[r + 1] ELSE IF i = r + 1 THEN s[r] ELSE s[i]]

\* The passage at dense rank r scores strictly less once moved to rank r + 1.
DenseMoveLowers(r) ==
  ScoreIn(FusionScores(SwapAt(dense_indices, r), sparse_indices, wd, ws),
          dense_indices[r])
    < ScoreIn(fusion_scores, dense_indices[r])

\* The passage at sparse rank r scores strictly less once moved to rank r + 1.
SparseMoveLowers(r) ==
  ScoreIn(FusionScores(dense_indices, SwapAt(sparse_indices, r), wd, ws),
          chunkid_to_faiss(SparseIdAt(r)))
    < ScoreIn(fusion_scores, chunkid_to_faiss(SparseIdAt(r)))

\* C12 as stated: for every weight setting, moving a passage from rank r to
\* rank r + 1 of the dense list, or of the sparse list, the other list held
\* fixed, strictly lowers its fusion score.
C12_StrictlyDecreasingForAllAlpha ==
  (Ran /\ StoresConsistent /\ ~Padded) =>
    /\ \A r \in 1..(Len(dense_indices) - 1) : DenseMoveLowers(r)
    /\ \A r \in 1..(Len(sparse_indices) - 1) : SparseMoveLowers(r)

\* C12 amended: the move strictly lowers the score when the weight of the
\* list is positive; under weight 0 it leaves the score as it is.
C12_StrictlyDecreasingForPositiveWeight ==
  (Ran /\ StoresConsistent /\ ~Padded) =>
    /\ \A r \in 1..(Len(dense_indices) - 1) :
         IF wd > 0 THEN DenseMoveLowers(r)
         ELSE ScoreIn(FusionScores(SwapAt(dense_indices, r), sparse_indices, wd, ws),
                      dense_indices[r])
                = ScoreIn(fusion_scores, dense_indices[r])
    /\ \A r \in 1..(Len(sparse_indices) - 1) :
         IF ws > 0 THEN SparseMoveLowers(r)
         ELSE ScoreIn(FusionScores(dense_indices, SwapAt(sparse_indices, r), wd, ws),
                      chunkid_to_faiss(SparseIdAt(r)))
                = ScoreIn(fusion_scores, chunkid_to_faiss(SparseIdAt(r)))

\* C12 witness: a run with both weights positive in which a passage of both
\* lists has a rank to move down to in each.
C12_Witness ==
  /\ Ran /\ StoresConsistent /\ ~Padded
  /\ wd > 0 /\ ws > 0
  /\ Len(dense_indices) = FuseMaxK
  /\ \E r \in 1..(Len(dense_indices) - 1), q \in 1..(Len(sparse_indices) - 1) :
       DenseIdAt(r) = SparseIdAt(q)

\* A dense_search call is recorded in the state.
DenseSearched == search.fn = "dense_search"

\* C13: dense_search on an empty index (with an empty id mapping and an empty
\* chunk file, dimensions agreeing) returns an empty list and raises nothing.
C13_EmptyIndexEmptyResult ==
  (/\ DenseSearched
   /\ ntotal = 0 /\ id_map = <<>> /\ chunks = <<>>
   /\ index_d = "encoder") =>
    /\ search.outcome = "returned"
    /\ results = <<>>

\* C14: on consistent stores and an index that is not short of neighbours,
\* the candidates dense_search returns have the ranks 1, 2, ..., are in
\* descending similarity, and of two with equal similarity the one with the
\* smaller passage id comes first.
C14_DenseOrderWithIdTieBreak ==
  (/\ DenseSearched /\ search.outcome = "returned"
   /\ StoresConsistent /\ ~Padded) =>
    /\ \A i \in 1..Len(results) : results[i].rank = i
    /\ \A i, j \in 1..Len(results) :
         i < j => \/ results[i].score > results[j].score
                  \/ /\ results[i].score = results[j].score
                     /\ results[i].chunk_id < results[j].chunk_id

\* A sparse_search call is recorded in the state.
SparseSearched == search.fn = "sparse_search"

\* The passages that are not among the results.
NotReturned == Range(chunks) \ {results[i].chunk_id : i \in 1..Len(results)}

\* The BM25 score of the passage with id p in the call of the state.
Bm25ScoreOf(p) == scores[CHOOSE i \in 1..Len(chunks) : chunks[i] = p]

\* C15: sparse_search returns the min(top_k, number of passages) passages of
\* highest score with the ranks 1, 2, ..., in descending score, and of two
\* with equal score the one with the smaller passage id comes first.
C15_SparseOrderWithIdTieBreak ==
  SparseSearched =>
    /\ Len(results) = Min(top_k, Len(chunks))
    /\ \A i \in 1..Len(results) : results[i].rank = i
    /\ \A i \in 1..Len(results) :
         \A p \in NotReturned : Bm25ScoreOf(p) <= results[i].score
    /\ \A i, j \in 1..Len(results) :
         i < j => \/ results[i].score > results[j].score
                  \/ /\ results[i].score = results[j].score
                     /\ results[i].chunk_id < results[j].chunk_id

\* C16: a query without a token left after tokenization gets no sparse
\* candidate, from sparse_search and from the sparse leg of hybrid_search.
C16_NoTokensNoCandidates ==
  (search.fn \in {"sparse_search", "hybrid_search"} /\ tokenized_query = <<>>) =>
    /\ sparse_indices = <<>>
    /\ results = <<>>

\* C17: the tokenize of sparse.py and the tokenize of fusion.py return the
\* same token sequence for every text.
C17_SameTokensOnBothPaths ==
  tokens.done => tokens.sparse = tokens.fusion

\* The chunk ids of the chunk file: the keys of chunk_lookup (fusion.py:43)
\* and, through ids.json, of chunkid_to_faiss (fusion.py:44).
ChunkIdKeys == {all_chunks[i].chunk_id : i \in 1..Len(all_chunks)}

\* C18: the chunk ids written by chunking are pairwise distinct, so a lookup
\* keyed by chunk id has one entry for every passage.
C18_ChunkIdsDistinct ==
  ingest_pc = "written" =>
    /\ \A i, j \in 1..Len(all_chunks) :
         i # j => all_chunks[i].chunk_id # all_chunks[j].chunk_id
    /\ Cardinality(ChunkIdKeys) = Len(all_chunks)

\* The build has got past the sort of the chunks.
BuildSorted == build_pc \notin {"idle", "sort"}

\* C19: throughout the build the id mapping has one entry per embedded
\* vector, entry i being the id of the chunk that vector i embeds; once the
\* build is done the index holds these vectors in this order, their number is
\* the number of chunks, and the two files written hold the mapping and the
\* index.
C19_MappingMatchesEmbeddings ==
  /\ Len(id_mapping) = Len(all_embeddings)
  /\ BuildSorted =>
       \A i \in 1..Len(id_mapping) :
         /\ id_mapping[i] = build_chunks[i].chunk_id
         /\ all_embeddings[i] = Embed(build_chunks[i].content)
  /\ build_pc = "done" =>
       /\ Len(index_vectors) = Len(id_mapping)
       /\ Len(id_mapping) = Len(build_chunks)
       /\ \A i \in 1..Len(id_mapping) :
            index_vectors[i] = Embed(build_chunks[i].content)
       /\ ids_file = Written(id_mapping)
       /\ index_file = Written(index_vectors)

\* C19 witness: a finished build of several batches, the last one short, from
\* a chunk file that was not in id order.
C19_Witness ==
  /\ build_pc = "done"
  /\ Len(build_chunks) > BATCH_SIZE
  /\ Len(build_chunks) % BATCH_SIZE # 0
  /\ \E i \in 1..(Len(build_chunks) - 1) :
       build_chunks[i].content > build_chunks[i + 1].content

\* C20: a process that imported dense.py or fusion.py without an error holds
\* an index with as many vectors as the id mapping has slots, an id mapping
\* that covers exactly the passages of the chunk file, and an index of the
\* query encoder's dimension.
C20_ImportFailsOnMismatch ==
  module \in {"dense", "fusion"} =>
    /\ ntotal = Len(id_map)
    /\ Range(id_map) = Range(chunks)
    /\ index_d = "encoder"

\* Ranks of the dense list that hold the padding label.
PaddingRanks == {r \in 1..Len(dense_indices) : dense_indices[r] = -1}

\* C27: when the index holds fewer vectors than the query asks for, the dense
\* leg of hybrid_search has at most index.ntotal candidates, the accumulator
\* has no entry for the padding label -1, and no printed result was resolved
\* from the padding label.
C27_PaddingNeverResolved ==
  (Ran /\ StoresConsistent /\ ntotal < RETRIEVAL_K) =>
    /\ Len(dense_indices) - Cardinality(PaddingRanks) <= ntotal
    /\ ~HasKey(fusion_scores, -1)
    /\ \A i \in 1..Len(top_results) : top_results[i][1] # -1
    /\ \A i, j \in 1..Len(printed) :
         i # j => printed[i].chunk_id # printed[j].chunk_id

\* What hybrid_search ranks for the query when it runs alone.
AloneTop(query) ==
  Truncate(SortByScore(FusionScores(QueryDense(query), QuerySparse(query), wd, ws)))

\* C21: no step of a query changes the loaded chunk list, id mapping, index
\* size or weights, and a worker that completes its query, whatever the other
\* worker did meanwhile (another query, or one given up midway), has printed
\* what the query prints when run alone, and ended the same way.
C21_QueriesDoNotInterfere ==
  /\ [][UNCHANGED stores]_vars
  /\ [](\A w \in Workers :
          threads[w].pc = "done" =>
            /\ threads[w].top_results = AloneTop(threads[w].query)
            /\ threads[w].printed = PrintResults(AloneTop(threads[w].query), 1)
            /\ threads[w].outcome = PrintOutcome(AloneTop(threads[w].query)))

\* C21 witness: one worker has completed a query while the other is midway
\* through a different one, with scores of its own.
C21_Witness ==
  /\ threads["w1"].pc = "done"
  /\ threads["w1"].outcome = "printed"
  /\ threads["w2"].pc = "sort"
  /\ threads["w2"].query # threads["w1"].query
  /\ threads["w2"].fusion_scores # threads["w1"].fusion_scores

\* C22: a query whose embedding is being computed always comes to an end,
\* however long the encoder takes.
C22_SlowEmbeddingStillCompletes ==
  \A w \in Workers :
    (threads[w].pc = "encode") ~> (threads[w].pc \in {"done", "idle"})

\* The chunks of the chapter, as <<start, end>> of tokens[start:end].
TokenChunks == chunk_tokens(records[1].tokens, CHUNK_SIZE, OVERLAP)

\* C30: with chunk_size 800 and overlap 150, a chapter of fewer than 50
\* tokens yields no chunk; one of at least 50 tokens yields chunks of 50 to
\* 800 tokens, each starting 650 tokens after the one before, the first at
\* token 0, and every token position lies in one of them.
C30_ChunksCoverEveryToken ==
  (ingest_pc \in {"written", "ZeroDivisionError"} /\ Len(records) = 1) =>
    LET n == records[1].tokens
        tc == TokenChunks
    IN /\ CHUNK_SIZE = 800 /\ OVERLAP = 150 /\ MIN_CHUNK_TOKENS = 50
       /\ Len(all_chunks) = Len(tc)
       /\ \A i \in 1..Len(tc) :
            /\ all_chunks[i].token_length = tc[i][2] - tc[i][1]
            /\ all_chunks[i].token_length >= 50
            /\ all_chunks[i].token_length <= 800
            /\ tc[i][1] = 650 * (i - 1)
       /\ n < 50 => tc = <<>>
       /\ n >= 50 =>
            \A pos \in 0..(n - 1) :
              \E i \in 1..Len(tc) : tc[i][1] <= pos /\ pos < tc[i][2]

\* C30 witness: a chapter chunked into two chunks, the second shorter than
\* chunk_size, whose tail after the second step was too short for a third.
C30_Witness ==
  /\ ingest_pc = "written"
  /\ Len(records) = 1
  /\ Len(all_chunks) = 2
  /\ records[1].tokens > 2 * (CHUNK_SIZE - OVERLAP)
  /\ all_chunks[2].token_length < CHUNK_SIZE

\* The rank of the group among the distinct groups of the list, in order of
\* first occurrence: the number of distinct groups up to its first occurrence.
DedupRank(ranked, group) ==
  LET first == CHOOSE i \in 1..Len(ranked) :
                 /\ ranked[i] = group
                 /\ \A j \in 1..(i - 1) : ranked[j] # group
  IN Cardinality({ranked[j] : j \in 1..first})

\* The first k entries of the measured list.
MeasuredTop == SubSeq(measured.results, 1, Min(measured.k, Len(measured.results)))

\* The report of the system whose evaluation has just ended.
LastReport == harness.all_results[Len(harness.all_results)]

\* The labelled queries whose expected chapter is among the chapters printed
\* for the query.
Hits == {i \in 1..Len(harness.debug) :
           harness.debug[i].expected \in Range(harness.debug[i].returned_chapters)}

SystemEnded == harness.all_results # <<>> /\ harness.query_no = 0

\* C23: recall_at_k is 1 if the expected chapter is among the first k results
\* and 0 otherwise; the recall evaluate_system reports for a system is the
\* number of labelled queries with the expected chapter among their first
\* results, divided by the number of labelled queries.
C23_RecallIsTopKMembership ==
  /\ measured.done =>
       measured.recall = IF measured.relevant_chapter \in Range(MeasuredTop)
                         THEN 1 ELSE 0
  /\ SystemEnded =>
       /\ Len(harness.debug) = Len(EVAL_QUERIES)
       /\ LastReport.recall10 * Len(EVAL_QUERIES) = 1000 * Cardinality(Hits)

\* C23 witness: a ranked list that holds the expected chapter, but not among
\* its first k results.
C23_Witness ==
  /\ measured.done
  /\ measured.recall = 0
  /\ measured.relevant_chapter \in Range(measured.results)

\* C23 witness of the report: a system evaluated with one hit and one miss.
C23_ReportWitness == SystemEnded /\ Cardinality(Hits) = 1

\* C24: mrr_score is 1/r, r being the rank of the expected chapter among the
\* distinct chapters of the list, and 0 if the chapter is absent.
C24_MrrUsesDeduplicatedRank ==
  measured.done =>
    measured.mrr =
      IF measured.relevant_chapter \in Range(measured.results)
      THEN 1000000 \div DedupRank(measured.results, measured.relevant_chapter)
      ELSE 0

\* C25: ndcg_at_k is 1/log2(p + 1), p being the rank of the expected chapter
\* among the distinct chapters of the first k results, and 0 if it is not
\* among them; when it is, mrr_score is 1/p for the same p.
C25_NdcgRankIsMrrRank ==
  measured.done =>
    IF measured.relevant_chapter \in Range(MeasuredTop)
    THEN LET p == DedupRank(MeasuredTop, measured.relevant_chapter)
         IN /\ measured.ndcg = InvLog2(p + 1)
            /\ measured.mrr = 1000000 \div p
    ELSE measured.ndcg = 0

\* C26: a run of the harness ends with all five configurations evaluated and
\* a best configuration reported, and no evaluated configuration has a higher
\* MRR than the best, or the same MRR and a higher NDCG@K.
C26_BestIsLexicographicMax ==
  harness.pc \notin {"idle", "evaluate"} =>
    /\ Len(harness.all_results) = 5
    /\ harness.best \in Range(harness.all_results)
    /\ \A r \in Range(harness.all_results) :
         \/ r.mrr < harness.best.mrr
         \/ r.mrr = harness.best.mrr /\ r.ndcg <= harness.best.ndcg

\* C28: the generating flag is true only while generate_answer runs; between
\* script runs, and so at the start of the next run, it is false and the
\* Generate button is not left disabled.
C28_FlagFalseBetweenRuns ==
  /\ app.generating = "True" => app.pc = "generating"
  /\ app.pc = "waiting" => app.generating = "False"

\* The requests whose response parses and has all required keys.
WellFormed == {i \in 1..Len(judge.log) : judge.log[i].kind = "complete"}

\* The requests whose response parses, has all required keys and whose three
\* scores convert to integers.
UsableRequests == {i \in 1..Len(judge.log) : Usable(judge.log[i])}

\* call_judge has made at most MAX_RETRIES requests and, if it has returned,
\* it returned after the first request of `good` with that response's scores
\* clamped into 1..5, or None after MAX_RETRIES requests none of which is in
\* `good`.
ReturnsFirstOf(good) ==
  /\ Len(judge.log) <= MAX_RETRIES
  /\ judge.pc = "returned" =>
       IF good # {}
       THEN /\ judge.returned = "parsed"
            /\ Len(judge.log) = CHOOSE i \in good : \A j \in good : i <= j
            /\ \A i \in 1..3 :
                 /\ judge.scores[i] \in 1..5
                 /\ judge.log[Len(judge.log)].scores[i].converts
                 /\ LET v == judge.log[Len(judge.log)].scores[i].int
                    IN judge.scores[i] = IF v < 1 THEN 1 ELSE IF v > 5 THEN 5 ELSE v
       ELSE judge.returned = "None" /\ Len(judge.log) = MAX_RETRIES

\* C29 as stated: call_judge returns the first response that parses and
\* contains all required keys.
C29_ReturnsFirstWellFormed == ReturnsFirstOf(WellFormed)

\* C29: call_judge makes at most 3 requests; it returns the first response
\* that parses, contains all required keys and whose three scores convert to
\* integers, clamped into 1..5, makes no request after it, and returns None
\* exactly when none of 3 responses was such.
C29_ReturnsFirstUsable == ReturnsFirstOf(UsableRequests)

\* C29 witness: the first response had all keys but a score that is no
\* number, the second was returned with a score clamped down and one clamped up.
C29_Witness ==
  /\ judge.pc = "returned"
  /\ judge.returned = "parsed"
  /\ Len(judge.log) = 2
  /\ judge.log[1].kind = "complete"
  /\ judge.log[2].scores[1].int > 5
  /\ judge.log[2].scores[2].int < 1
====
